---- MODULE Spec2Model ----
(***************************************************************************)
(* Host-side bus-functional model of cocotb_usb/host_valenty.py            *)
(* (class UsbTestValenty): the transaction primitives and the control      *)
(* transfer orchestrator, as a state machine.                              *)
(*                                                                         *)
(* The main coroutine is a program counter `pc` whose labels are the       *)
(* source lines about to be executed ("L305" = host_valenty.py line 305).  *)
(* Every `yield` of the source (a register read or write, a RisingEdge, a  *)
(* join) is one step of the main task.  The forked stimulus coroutine      *)
(* (host_setup / host_send / host_recv of the base class) is a second      *)
(* process: it puts the bytes of its packet on the wire one at a time and  *)
(* then finishes.  The device under test is seen only through its          *)
(* registers: a receive FIFO behind *_status / *_data, and write-1-to-     *)
(* clear event-pending registers.                                          *)
(***************************************************************************)
EXTENDS Integers, Sequences, FiniteSets, TLC

(***************************************************************************)
(* Bounds of the model.                                                    *)
(***************************************************************************)
\* Largest simulated time the clock reaches.
MaxTime == 2
\* Largest value the device presents in an event-pending register.
MaxEv == 2
\* Longest payload handed to a data primitive.
MaxData == 3
\* Bytes a device may present after a packet.
MaxJunk == 256
\* Largest device address handed to set_device_address.
MaxAddr == 2
\* Largest value the device presents in a status register.
MaxStatus == 63

(***************************************************************************)
(* Program constants.                                                      *)
(***************************************************************************)
\* expect_setup / expect_data: iterations of the priming loop.
PRIME_BUDGET == 128
\* expect_setup: iterations of the drain loop.
SETUP_DRAIN_BUDGET == 48
\* expect_data: iterations of the drain loop.
DATA_DRAIN_BUDGET == 256
\* transaction_data_out / transaction_data_in: default chunk_size.
DEFAULT_CHUNK_SIZE == 64
\* expect_setup: the "handled" code written to usb_setup_ctrl.
SETUP_HANDLED == 2
\* transaction_data_in: packet budget added to the current time (5e2).
DATA_IN_PACKET_TIME == 500
\* UsbTest.MAX_REQUEST_TIME and UsbTest.MAX_PACKET_TIME of the base class,
\* in units of the model's clock.
MAX_REQUEST_TIME == 1
MAX_PACKET_TIME == 1

\* PID.DATA0 / PID.DATA1 / PID.ACK / PID.NAK
DATA0 == "DATA0"
DATA1 == "DATA1"
ACK == "ACK"
NAK == "NAK"

(***************************************************************************)
(* Pure helpers.                                                           *)
(***************************************************************************)
\* Bit k of the integer v.
Bit(v, k) == (v \div (2 ^ k)) % 2

\* v & m on 8-bit values.
RECURSIVE BitAnd(_, _)
BitAnd(a, b) ==
    IF a = 0 \/ b = 0 THEN 0
    ELSE ((a % 2) * (b % 2)) + 2 * BitAnd(a \div 2, b \div 2)

\* a ^ b
RECURSIVE Xor(_, _)
Xor(a, b) ==
    IF a = 0 THEN b
    ELSE IF b = 0 THEN a
    ELSE (((a % 2) + (b % 2)) % 2) + 2 * Xor(a \div 2, b \div 2)

\* The bits of `a` that are not set in `w`: what a write-1-to-clear
\* register holding `a` keeps after `w` is written to it.
RECURSIVE ClearBits(_, _)
ClearBits(a, w) ==
    IF a = 0 THEN 0
    ELSE ((a % 2) * (1 - (w % 2))) + 2 * ClearBits(a \div 2, w \div 2)

\* Every bit set in a is set in b.
SubMask(a, b) == BitAnd(a, b) = a

\* cocotb_usb.usb.packet.crc16: CRC-16/USB (reflected polynomial 0xA001,
\* initial value 0xFFFF, final xor 0xFFFF), low byte first.
\* (x \in {c} takes the value of c once, whatever way it was passed.)
RECURSIVE CrcBits(_, _)
CrcBits(c, n) ==
    IF n = 0 THEN c
    ELSE CHOOSE r \in { CrcBits(IF x % 2 = 1 THEN Xor(x \div 2, 40961) ELSE x \div 2,
                                n - 1) : x \in {c} } : TRUE

RECURSIVE CrcBytes(_, _)
CrcBytes(c, d) ==
    IF d = <<>> THEN c
    ELSE CHOOSE r \in { CrcBytes(CrcBits(Xor(x, Head(d)), 8), Tail(d)) : x \in {c} } : TRUE

crc16(d) ==
    LET r == Xor(CrcBytes(65535, d), 65535) IN <<r % 256, r \div 256>>

\* cocotb_usb.utils.grouper_tofit: d cut into pieces of n items, the last
\* one shorter when Len(d) is no multiple of n; no piece for empty d.
RECURSIVE grouper_tofit(_, _)
grouper_tofit(n, d) ==
    IF d = <<>> THEN <<>>
    ELSE IF Len(d) <= n THEN <<d>>
    ELSE <<SubSeq(d, 1, n)>> \o grouper_tofit(n, SubSeq(d, n + 1, Len(d)))

\* actual_data[:-2] and actual_data[-2:]
AllButLastTwo(s) == SubSeq(s, 1, Len(s) - 2)
LastTwo(s) == SubSeq(s, Len(s) - 1, Len(s))

\* descriptor_data=None and descriptor_data=<bytes>
None == [present |-> FALSE, bytes |-> <<>>]
Some(b) == [present |-> TRUE, bytes |-> b]

(***************************************************************************)
(* Inputs.                                                                 *)
(***************************************************************************)
\* SETUP packets: direction bit clear or set, wLength (bytes 6-7) zero,
\* low byte only, high byte only.
SetupPackets ==
    { <<0, 9, 1, 0, 0, 0, 0, 0>>,
      <<33, 32, 0, 0, 0, 0, 7, 0>>,
      <<33, 32, 0, 0, 0, 0, 0, 1>>,
      <<128, 0, 0, 0, 0, 0, 0, 0>>,
      <<128, 6, 0, 1, 0, 0, 18, 0>>,
      <<128, 6, 0, 1, 0, 0, 0, 1>> }

\* Payloads of a data stage.
Payloads == { SubSeq(<<7, 8, 9, 10, 11, 12>>, 1, n) : n \in 0..MaxData }

\* descriptor_data of a control transfer: absent, empty, one byte.
Descriptors == { None, Some(<<>>), Some(<<7>>) }

\* chunk_size of a direct call of a data primitive.
ChunkSizes == { 1, DEFAULT_CHUNK_SIZE }

\* Values of an event-pending register.
EvValues == 0..MaxEv

\* The event-pending registers.
EvRegs == { "usb_setup_ev_pending", "usb_in_ev_pending", "usb_out_ev_pending" }

(***************************************************************************)
(* State.                                                                  *)
(***************************************************************************)
VARIABLES
    op,               \* the call in progress ("idle" before it)
    pc,               \* source line the main coroutine is at
    result,           \* how the call ended: none, ok, usage, validation, timeout
    setup_data,       \* argument of the control transfer / transaction_setup
    descriptor_data,  \* argument of the control transfer
    data,             \* transaction_data_*: argument data
    chunks,           \* transaction_data_*: chunks still to go
    datax,            \* transaction_data_*: the data toggle
    expected,         \* transaction_data_out: expected response
    chunk_size,       \* transaction_data_*: argument chunk_size
    start_datax,      \* transaction_data_*: argument datax, as passed
    sent_data,        \* transaction_data_in: local sent_data
    bi,               \* transaction_data_in/send_data: bytes of the chunk written
    expected_data,    \* expect_*: expected payload
    actual_data,      \* expect_*: bytes drained
    i,                \* expect_*: loop counter
    ev,               \* locals setup_ev / in_ev / out_ev / pending: last value read
    time,             \* get_sim_time("us")
    request_deadline, \* self.request_deadline
    packet_deadline,  \* self.packet_deadline
    xmit,             \* the forked task: none, running, done
    pkt,              \* payload the forked task sends (absent: it receives)
    wire,             \* bytes the device's receive FIFO gets for it (<<>>: none read yet)
    fifo,             \* the receive FIFO: empty, some (more may come), rest (all there)
    ev_seen,          \* per event-pending register: bits read as set, not yet cleared
    wlog,             \* register writes of this call, in order: <<name, value>>
    regs_read,        \* registers this call has read
    trace,            \* primitives invoked and returned, in order
    toggles,          \* toggles handed to forked tasks by the data primitive
    req_arms,         \* assignments to request_deadline in this call
    pkt_arms,         \* assignments to packet_deadline in this call
    t_setup_ret,      \* time when transaction_setup returned
    report_xmit,      \* state of the forked task when a primitive returned or raised
    primed,           \* expect_*: the priming loop saw the have bit
    usb_address,      \* the device-address register: last value written
    usb_pullup_out,   \* the pull-up register: last value written
    device,           \* the device under test: "packet" or "babble"
    address,          \* self.address
    ep,               \* pending: argument ep
    val,              \* pending: local val; set_device_address: argument address
    ret               \* pending: the value returned

args == <<op, setup_data, descriptor_data, expected, chunk_size, start_datax>>
dataloc == <<data, chunks, datax, sent_data, bi>>
checkloc == <<expected_data, actual_data, i, primed>>
deadlines == <<request_deadline, packet_deadline, req_arms, pkt_arms, t_setup_ret>>
stim == <<xmit, pkt, wire, fifo>>
regs == <<ev, ev_seen, wlog, regs_read, usb_address, usb_pullup_out>>
obs == <<trace, toggles, report_xmit>>
session == <<device, address, ep, val, ret>>

vars == <<pc, result, time, args, dataloc, checkloc, deadlines, stim, regs, obs,
          session>>

InitDevice(dev) ==
    /\ op = "idle"
    /\ pc = "idle"
    /\ result = "none"
    /\ setup_data = <<>>
    /\ descriptor_data = None
    /\ data = <<>>
    /\ chunks = <<>>
    /\ datax = DATA1
    /\ expected = ACK
    /\ chunk_size = DEFAULT_CHUNK_SIZE
    /\ start_datax = DATA1
    /\ sent_data = 0
    /\ bi = 0
    /\ expected_data = <<>>
    /\ actual_data = <<>>
    /\ i = 0
    /\ ev = 0
    /\ time = 0
    /\ request_deadline = 0
    /\ packet_deadline = 0
    /\ xmit = "none"
    /\ pkt = None
    /\ wire = <<>>
    /\ fifo = "empty"
    /\ ev_seen = [r \in EvRegs |-> 0]
    /\ wlog = <<>>
    /\ regs_read = {}
    /\ trace = <<>>
    /\ toggles = <<>>
    /\ req_arms = 0
    /\ pkt_arms = 0
    /\ t_setup_ret = 0
    /\ report_xmit = "none"
    /\ primed = FALSE
    /\ usb_address = 0
    /\ usb_pullup_out = 0
    /\ device = dev
    /\ address = 0
    /\ ep = 0
    /\ val = 0
    /\ ret = 0

\* The device under test answers a packet with a packet.
Init == InitDevice("packet")

(***************************************************************************)
(* The register interface and the clock.                                   *)
(***************************************************************************)
\* Simulated time passes while the main coroutine is suspended.
Tick == time' \in { time, IF time < MaxTime THEN time + 1 ELSE time }

\* self.write(csrs[reg], v); an event-pending register clears the bits
\* written as 1.
Write(reg, v) ==
    /\ wlog' = Append(wlog, <<reg, v>>)
    /\ ev_seen' = IF reg \in EvRegs
                  THEN [ev_seen EXCEPT ![reg] = ClearBits(@, v)]
                  ELSE ev_seen
    /\ usb_address' = IF reg = "usb_address" THEN v ELSE usb_address
    /\ usb_pullup_out' = IF reg = "usb_pullup_out" THEN v ELSE usb_pullup_out
    /\ Tick

\* v = self.read(csrs[reg]) of an event-pending register: bits seen set
\* and not cleared since are still set; the device may have set more.
ReadEv(reg, v) ==
    /\ v \in EvValues
    /\ SubMask(ev_seen[reg], v)
    /\ ev_seen' = [ev_seen EXCEPT ![reg] = v]
    /\ ev' = v
    /\ regs_read' = regs_read \cup {reg}
    /\ Tick

\* status = self.read(csrs[usb_*_status]) & 0x10: the receive FIFO holds a
\* byte that has not been read.
have == IF fifo # "empty" THEN 16 ELSE 0

\* An exception that is caught where it is raised: the coroutine stays at
\* its line and runs it again.
Raise_Mut(kind) ==
    /\ result' = kind
    /\ pc' = pc

\* The call ends with an exception.
Raise(kind) ==
    /\ result' = kind
    /\ pc' = "raised"

\* The call returns.
Return ==
    /\ result' = "ok"
    /\ pc' = "done"

(***************************************************************************)
(* The forked stimulus task and the device's receive FIFO.                 *)
(*                                                                         *)
(* The bytes of the stimulus' packet arrive in the FIFO one after the      *)
(* other while the check side polls and drains.  The FIFO is kept as what  *)
(* the check side can tell of it: "empty", "some" (a byte is there, more   *)
(* may still arrive), "rest" (the stimulus is through, all that is left    *)
(* of the packet is there).  What the device presents for the packet is    *)
(* fixed when its first byte is read.                                      *)
(***************************************************************************)
\* What the device may present for a packet carrying d: the packet and its
\* CRC16, a corrupted payload, a corrupted CRC, a packet cut short.
Corrupt(b) == (b + 1) % 256
Deliveries(d) ==
    LET good == d \o crc16(d) IN
    { good,
      [good EXCEPT ![1] = Corrupt(@)],
      [good EXCEPT ![Len(good)] = Corrupt(@)],
      SubSeq(good, 1, Len(good) - 1) }

\* A babbling device's status register goes on reporting a byte: it may
\* also present the packet followed by more bytes than any drain loop takes.
Presented(d) ==
    IF device = "babble"
    THEN Deliveries(d) \cup { d \o crc16(d) \o [k \in 1..MaxJunk |-> 0] }
    ELSE Deliveries(d)

\* cocotb.fork(...): the task starts; p is the payload it sends, None for
\* host_recv.
Fork(p) ==
    /\ xmit' = "running"
    /\ pkt' = p
    /\ wire' = <<>>
    /\ fifo' = "empty"

\* v = self.read(csrs[usb_*_data]): the next byte leaves the FIFO.
Pop ==
    \E w \in (IF wire = <<>> THEN Presented(pkt.bytes) ELSE {wire}) :
        /\ wire' = w
        /\ actual_data' = Append(actual_data, w[Len(actual_data) + 1])
        /\ fifo' \in IF Len(actual_data) + 1 >= Len(w) THEN {"empty"}
                     ELSE IF fifo = "rest" THEN {"rest"}
                     ELSE {"empty", "some"}

\* Lines at which the main coroutine is suspended inside expect_setup or
\* expect_data, in the join that follows, or has raised out of them.
CheckPcs ==
    { "L100", "L104", "L108", "L112", "L114", "L128", "L222",
      "L167", "L171", "L175", "L179", "L181", "L194", "L197", "L245",
      "raised" }

\* host_setup / host_send put a byte of the packet on the wire and it
\* arrives in the empty FIFO.
StimSend ==
    /\ xmit = "running"
    /\ pkt.present
    /\ pc \in CheckPcs
    /\ fifo = "empty"
    /\ wire = <<>> \/ Len(actual_data) < Len(wire)
    /\ fifo' = "some"
    /\ UNCHANGED <<xmit, pkt, wire, pc, result, time, args, dataloc, checkloc,
                   deadlines, regs, obs>>
    /\ UNCHANGED session

\* The forked task runs to its end: what is left of its packet is in the
\* FIFO (nothing for host_recv, or when the device ignored the packet).
StimDone ==
    /\ xmit = "running"
    /\ xmit' = "done"
    /\ fifo' \in IF ~pkt.present THEN {"empty"}
                 ELSE IF wire # <<>>
                 THEN {IF Len(actual_data) < Len(wire) THEN "rest" ELSE "empty"}
                 ELSE IF fifo = "some" THEN {"rest"}
                 ELSE {"empty", "rest"}
    /\ UNCHANGED <<pkt, wire, pc, result, time, args, dataloc, checkloc, deadlines,
                   regs, obs>>
    /\ UNCHANGED session

(***************************************************************************)
(* The harness calls one operation.                                        *)
(***************************************************************************)
Call_control_transfer_out ==
    /\ pc = "idle"
    /\ \E s \in SetupPackets, d \in Descriptors :
          /\ setup_data' = s
          /\ descriptor_data' = d
    /\ op' = "control_transfer_out"
    /\ pc' = "L299"
    /\ UNCHANGED <<result, time, expected, chunk_size, start_datax, dataloc, checkloc,
                   deadlines, stim, regs, obs>>
    /\ UNCHANGED session

Call_control_transfer_in ==
    /\ pc = "idle"
    /\ \E s \in SetupPackets, d \in Descriptors :
          /\ setup_data' = s
          /\ descriptor_data' = d
    /\ op' = "control_transfer_in"
    /\ pc' = "L352"
    /\ UNCHANGED <<result, time, expected, chunk_size, start_datax, dataloc, checkloc,
                   deadlines, stim, regs, obs>>
    /\ UNCHANGED session

Call_transaction_setup_with(s) ==
    /\ pc = "idle"
    /\ setup_data' = s
    /\ op' = "transaction_setup"
    /\ pc' = "L220"
    /\ trace' = Append(trace, "transaction_setup")
    /\ UNCHANGED <<result, time, descriptor_data, expected, chunk_size, start_datax,
                   dataloc, checkloc, deadlines, stim, regs, toggles, report_xmit>>
    /\ UNCHANGED session

Call_transaction_setup ==
    \E s \in SetupPackets : Call_transaction_setup_with(s)

Call_transaction_data_out_with(d, n, e, x) ==
    /\ pc = "idle"
    /\ data' = d
    /\ chunk_size' = n
    /\ chunks' = grouper_tofit(n, d)
    /\ expected' = e
    /\ start_datax' = x
    /\ datax' = x
    /\ op' = "transaction_data_out"
    /\ pc' = "L236"
    /\ trace' = Append(trace, "transaction_data_out")
    /\ UNCHANGED <<result, time, setup_data, descriptor_data, sent_data, bi, checkloc,
                   deadlines, stim, regs, toggles, report_xmit>>
    /\ UNCHANGED session

Call_transaction_data_out ==
    \E d \in Payloads, n \in ChunkSizes, e \in {ACK, NAK}, x \in {DATA0, DATA1} :
        Call_transaction_data_out_with(d, n, e, x)

Call_transaction_data_in ==
    /\ pc = "idle"
    /\ \E d \in Payloads, n \in ChunkSizes, x \in {DATA0, DATA1} :
          /\ data' = d
          /\ chunk_size' = n
          /\ chunks' = grouper_tofit(n, d)
          /\ start_datax' = x
          /\ datax' = x
    /\ sent_data' = 0
    /\ op' = "transaction_data_in"
    /\ pc' = "L261"
    /\ trace' = Append(trace, "transaction_data_in")
    /\ UNCHANGED <<result, time, setup_data, descriptor_data, expected, bi, checkloc,
                   deadlines, stim, regs, toggles, report_xmit>>
    /\ UNCHANGED session

(***************************************************************************)
(* transaction_setup and expect_setup.                                     *)
(***************************************************************************)
\* Where the caller of transaction_setup goes on.
AfterSetup ==
    CASE op = "control_transfer_out" -> "L310"
      [] op = "control_transfer_in" -> "L363"
      [] OTHER -> "done"

\* Where the caller of a data primitive goes on.
AfterData ==
    CASE op = "control_transfer_out" -> "L334"
      [] op = "control_transfer_in" -> "L388"
      [] OTHER -> "done"

\* A primitive called by the harness itself ends the call when it returns.
ResultAt(next) == IF next = "done" THEN "ok" ELSE result

\* 220: xmit = cocotb.fork(self.host_setup(addr, epnum, data))
\* 221: yield self.expect_setup(epaddr_out, data); 96: actual_data = []
transaction_setup_L220 ==
    /\ pc = "L220"
    /\ Fork(Some(setup_data))
    /\ expected_data' = setup_data
    /\ actual_data' = <<>>
    /\ primed' = FALSE
    /\ i' = 0
    /\ pc' = "L100"
    /\ UNCHANGED <<result, time, args, dataloc, deadlines, regs, obs>>
    /\ UNCHANGED session

\* 100-103: status = read(usb_setup_status); have = status & 0x10; break
expect_setup_L100 ==
    /\ pc = "L100"
    /\ regs_read' = regs_read \cup {"usb_setup_status"}
    /\ Tick
    /\ primed' = (have # 0)
    /\ IF have # 0
       THEN pc' = "L108" /\ i' = 0
       ELSE pc' = "L104" /\ i' = i
    /\ UNCHANGED <<result, args, dataloc, expected_data, actual_data, deadlines,
                   stim, ev, ev_seen, wlog, usb_address, usb_pullup_out, obs>>
    /\ UNCHANGED session

\* 104: yield RisingEdge(clk12), and the next iteration of range(128)
expect_setup_L104 ==
    /\ pc = "L104"
    /\ Tick
    /\ IF i + 1 < PRIME_BUDGET
       THEN pc' = "L100" /\ i' = i + 1
       ELSE pc' = "L108" /\ i' = 0
    /\ UNCHANGED <<result, args, dataloc, expected_data, primed, actual_data, deadlines,
                   stim, regs, obs>>
    /\ UNCHANGED session

\* A drain loop that is entered only when the priming loop saw a byte.
expect_setup_L108_Mut ==
    /\ pc = "L108"
    /\ regs_read' = regs_read \cup {"usb_setup_status"}
    /\ Tick
    /\ pc' = IF have = 0 \/ ~primed THEN "L116" ELSE "L112"
    /\ UNCHANGED <<result, args, dataloc, checkloc, deadlines,
                   stim, ev, ev_seen, wlog, usb_address, usb_pullup_out, obs>>
    /\ UNCHANGED session

\* 108-111: status = read(usb_setup_status); if not have: break
expect_setup_L108 ==
    /\ pc = "L108"
    /\ regs_read' = regs_read \cup {"usb_setup_status"}
    /\ Tick
    /\ pc' = IF have = 0 THEN "L116" ELSE "L112"
    /\ UNCHANGED <<result, args, dataloc, checkloc, deadlines,
                   stim, ev, ev_seen, wlog, usb_address, usb_pullup_out, obs>>
    /\ UNCHANGED session

\* 112-113: v = read(usb_setup_data); actual_data.append(v)
expect_setup_L112 ==
    /\ pc = "L112"
    /\ regs_read' = regs_read \cup {"usb_setup_data"}
    /\ Tick
    /\ Pop
    /\ pc' = "L114"
    /\ UNCHANGED <<result, args, dataloc, expected_data, primed, i, deadlines,
                   xmit, pkt, ev, ev_seen, wlog, usb_address, usb_pullup_out, obs>>
    /\ UNCHANGED session

\* A drain loop that goes on for as long as the status register reports a
\* byte.
expect_setup_L114_Mut ==
    /\ pc = "L114"
    /\ Tick
    /\ i' = i + 1
    /\ pc' = "L108"
    /\ UNCHANGED <<result, args, dataloc, expected_data, primed, actual_data, deadlines,
                   stim, regs, obs>>
    /\ UNCHANGED session

\* 114: yield RisingEdge(clk12), and the next iteration of range(48)
expect_setup_L114 ==
    /\ pc = "L114"
    /\ Tick
    /\ i' = i + 1
    /\ pc' = IF i + 1 < SETUP_DRAIN_BUDGET THEN "L108" ELSE "L116"
    /\ UNCHANGED <<result, args, dataloc, expected_data, primed, actual_data, deadlines,
                   stim, regs, obs>>
    /\ UNCHANGED session

\* A validation that compares the payload and leaves the CRC16 unchecked.
DataValid_Mut(want, got) ==
    /\ Len(got) >= 2
    /\ want = AllButLastTwo(got)

\* 116-126 and 184-193: the length check, the split into payload and CRC16,
\* the two assertEqual.
DataValid(want, got) ==
    /\ Len(got) >= 2
    /\ want = AllButLastTwo(got)
    /\ crc16(want) = LastTwo(got)

\* 116-126: raise TestFailure, or go on to the acknowledge
expect_setup_L116 ==
    /\ pc = "L116"
    /\ IF DataValid(expected_data, actual_data)
       THEN /\ pc' = "L128"
            /\ UNCHANGED <<result, report_xmit>>
       ELSE /\ Raise("validation")
            /\ report_xmit' = xmit
    /\ UNCHANGED <<time, args, dataloc, checkloc, deadlines, stim, regs, trace, toggles>>
    /\ UNCHANGED session

\* 128: yield self.write(usb_setup_ctrl, 2)
expect_setup_L128 ==
    /\ pc = "L128"
    /\ Write("usb_setup_ctrl", SETUP_HANDLED)
    /\ pc' = "L222"
    /\ UNCHANGED <<result, args, dataloc, checkloc, deadlines, stim, ev, regs_read, obs>>
    /\ UNCHANGED session

\* 222: yield xmit.join(), and transaction_setup returns
transaction_setup_L222 ==
    /\ pc = "L222"
    /\ xmit = "done"
    /\ Tick
    /\ trace' = Append(trace, "transaction_setup_ret")
    /\ report_xmit' = xmit
    /\ t_setup_ret' = time'
    /\ pc' = AfterSetup
    /\ result' = ResultAt(AfterSetup)
    /\ UNCHANGED <<args, dataloc, checkloc, request_deadline, packet_deadline,
                   req_arms, pkt_arms, stim, regs, toggles>>
    /\ UNCHANGED session

transaction_setup ==
    \/ transaction_setup_L220
    \/ transaction_setup_L222

expect_setup ==
    \/ expect_setup_L100
    \/ expect_setup_L104
    \/ expect_setup_L108
    \/ expect_setup_L112
    \/ expect_setup_L114
    \/ expect_setup_L116
    \/ expect_setup_L128

\* A toggle that never flips.
Flip_Mut(x) == x

(***************************************************************************)
(* transaction_data_out, set_response and expect_data.                     *)
(***************************************************************************)
\* 247-250 and 279-282: the data toggle flips.
Flip(x) == IF x = DATA0 THEN DATA1 ELSE DATA0

\* 236: the next chunk of grouper_tofit(chunk_size, data), or the return
transaction_data_out_L236 ==
    /\ pc = "L236"
    /\ IF chunks # <<>>
       THEN /\ pc' = "L239"
            /\ UNCHANGED <<result, trace, report_xmit>>
       ELSE /\ trace' = Append(trace, "transaction_data_out_ret")
            /\ report_xmit' = xmit
            /\ pc' = AfterData
            /\ result' = ResultAt(AfterData)
    /\ UNCHANGED <<time, args, dataloc, checkloc, deadlines, stim, regs, toggles>>
    /\ UNCHANGED session

\* A line 239 that gives up before the chunk when the request deadline of
\* the control transfer has passed, as transaction_data_in does.
transaction_data_out_L239_Mut ==
    /\ pc = "L239"
    /\ IF op = "control_transfer_out" /\ time > request_deadline
       THEN Raise("timeout") /\ UNCHANGED <<packet_deadline, pkt_arms>>
       ELSE /\ packet_deadline' = time + MAX_PACKET_TIME
            /\ pkt_arms' = pkt_arms + 1
            /\ pc' = "L241"
            /\ UNCHANGED result
    /\ UNCHANGED <<time, args, dataloc, checkloc, request_deadline, req_arms,
                   t_setup_ret, stim, regs, obs>>
    /\ UNCHANGED session

\* 239: self.packet_deadline = get_sim_time("us") + MAX_PACKET_TIME
transaction_data_out_L239 ==
    /\ pc = "L239"
    /\ packet_deadline' = time + MAX_PACKET_TIME
    /\ pkt_arms' = pkt_arms + 1
    /\ pc' = "L241"
    /\ UNCHANGED <<result, time, args, dataloc, checkloc, request_deadline, req_arms,
                   t_setup_ret, stim, regs, obs>>
    /\ UNCHANGED session

\* 241, 204-207: set_response(ep, ACK) of an OUT endpoint writes
\* 0x10 | epnum to usb_out_ctrl (endpoint 0)
set_response_L206 ==
    /\ pc = "L241"
    /\ Write("usb_out_ctrl", 16)
    /\ pc' = "L242"
    /\ UNCHANGED <<result, args, dataloc, checkloc, deadlines, stim, ev, regs_read, obs>>
    /\ UNCHANGED session

\* 242-244: xmit = cocotb.fork(self.host_send(datax, addr, epnum, chunk,
\* expected)); yield self.expect_data(epnum, list(chunk), expected)
transaction_data_out_L242 ==
    /\ pc = "L242"
    /\ Fork(Some(Head(chunks)))
    /\ toggles' = Append(toggles, datax)
    /\ expected_data' = Head(chunks)
    /\ actual_data' = <<>>
    /\ primed' = FALSE
    /\ i' = 0
    /\ pc' = "L167"
    /\ UNCHANGED <<result, time, args, dataloc, deadlines, regs, trace, report_xmit>>
    /\ UNCHANGED session

\* 167-170: status = read(usb_out_status); have = status & (1 << 4); break
expect_data_L167 ==
    /\ pc = "L167"
    /\ regs_read' = regs_read \cup {"usb_out_status"}
    /\ Tick
    /\ primed' = (have # 0)
    /\ IF have # 0
       THEN pc' = "L175" /\ i' = 0
       ELSE pc' = "L171" /\ i' = i
    /\ UNCHANGED <<result, args, dataloc, expected_data, actual_data, deadlines,
                   stim, ev, ev_seen, wlog, usb_address, usb_pullup_out, obs>>
    /\ UNCHANGED session

\* 171: yield RisingEdge(clk12), and the next iteration of range(128)
expect_data_L171 ==
    /\ pc = "L171"
    /\ Tick
    /\ IF i + 1 < PRIME_BUDGET
       THEN pc' = "L167" /\ i' = i + 1
       ELSE pc' = "L175" /\ i' = 0
    /\ UNCHANGED <<result, args, dataloc, expected_data, primed, actual_data, deadlines,
                   stim, regs, obs>>
    /\ UNCHANGED session

\* 175-178: status = read(usb_out_status); if not have: break
expect_data_L175 ==
    /\ pc = "L175"
    /\ regs_read' = regs_read \cup {"usb_out_status"}
    /\ Tick
    /\ pc' = IF have = 0 THEN "L183" ELSE "L179"
    /\ UNCHANGED <<result, args, dataloc, checkloc, deadlines,
                   stim, ev, ev_seen, wlog, usb_address, usb_pullup_out, obs>>
    /\ UNCHANGED session

\* 179-180: v = read(usb_out_data); actual_data.append(v)
expect_data_L179 ==
    /\ pc = "L179"
    /\ regs_read' = regs_read \cup {"usb_out_data"}
    /\ Tick
    /\ Pop
    /\ pc' = "L181"
    /\ UNCHANGED <<result, args, dataloc, expected_data, primed, i, deadlines,
                   xmit, pkt, ev, ev_seen, wlog, usb_address, usb_pullup_out, obs>>
    /\ UNCHANGED session

\* 181: yield RisingEdge(clk12), and the next iteration of range(256)
expect_data_L181 ==
    /\ pc = "L181"
    /\ Tick
    /\ i' = i + 1
    /\ pc' = IF i + 1 < DATA_DRAIN_BUDGET THEN "L175" ELSE "L183"
    /\ UNCHANGED <<result, args, dataloc, expected_data, primed, actual_data, deadlines,
                   stim, regs, obs>>
    /\ UNCHANGED session

\* 183-193: validation only when the expected response is ACK
expect_data_L183 ==
    /\ pc = "L183"
    /\ IF expected # ACK
       THEN /\ pc' = "L245"
            /\ UNCHANGED <<result, report_xmit>>
       ELSE IF DataValid(expected_data, actual_data)
       THEN /\ pc' = "L194"
            /\ UNCHANGED <<result, report_xmit>>
       ELSE /\ Raise("validation")
            /\ report_xmit' = xmit
    /\ UNCHANGED <<time, args, dataloc, checkloc, deadlines, stim, regs, trace, toggles>>
    /\ UNCHANGED session

\* A check that accepts any event: if pending == 0: raise
expect_data_L194_Mut ==
    /\ pc = "L194"
    /\ \E v \in EvValues :
          /\ ReadEv("usb_out_ev_pending", v)
          /\ IF v = 0
             THEN /\ Raise("validation")
                  /\ report_xmit' = xmit
             ELSE /\ pc' = "L197"
                  /\ UNCHANGED <<result, report_xmit>>
    /\ UNCHANGED <<args, dataloc, checkloc, deadlines, stim, wlog, usb_address, usb_pullup_out, trace, toggles>>
    /\ UNCHANGED session

\* 194-196: pending = read(usb_out_ev_pending); if pending != 1: raise
expect_data_L194 ==
    /\ pc = "L194"
    /\ \E v \in EvValues :
          /\ ReadEv("usb_out_ev_pending", v)
          /\ IF v # 1
             THEN /\ Raise("validation")
                  /\ report_xmit' = xmit
             ELSE /\ pc' = "L197"
                  /\ UNCHANGED <<result, report_xmit>>
    /\ UNCHANGED <<args, dataloc, checkloc, deadlines, stim, wlog, usb_address, usb_pullup_out, trace, toggles>>
    /\ UNCHANGED session

\* 197: yield self.write(usb_out_ev_pending, pending)
expect_data_L197 ==
    /\ pc = "L197"
    /\ Write("usb_out_ev_pending", ev)
    /\ pc' = "L245"
    /\ UNCHANGED <<result, args, dataloc, checkloc, deadlines, stim, ev, regs_read, obs>>
    /\ UNCHANGED session

\* 245: yield xmit.join()
transaction_data_out_L245 ==
    /\ pc = "L245"
    /\ xmit = "done"
    /\ Tick
    /\ pc' = "L247"
    /\ UNCHANGED <<result, args, dataloc, checkloc, deadlines, stim, regs, obs>>
    /\ UNCHANGED session

\* 247-250: the toggle flips, and the loop goes to its next chunk
transaction_data_out_L247 ==
    /\ pc = "L247"
    /\ datax' = Flip(datax)
    /\ chunks' = Tail(chunks)
    /\ pc' = "L236"
    /\ UNCHANGED <<result, time, args, data, sent_data, bi, checkloc, deadlines,
                   stim, regs, obs>>
    /\ UNCHANGED session

transaction_data_out ==
    \/ transaction_data_out_L236
    \/ transaction_data_out_L239
    \/ set_response_L206
    \/ transaction_data_out_L242
    \/ transaction_data_out_L245
    \/ transaction_data_out_L247

expect_data ==
    \/ expect_data_L167
    \/ expect_data_L171
    \/ expect_data_L175
    \/ expect_data_L179
    \/ expect_data_L181
    \/ expect_data_L183
    \/ expect_data_L194
    \/ expect_data_L197

(***************************************************************************)
(* transaction_data_in and send_data.                                      *)
(***************************************************************************)
\* 261: the next chunk of grouper_tofit(chunk_size, data), or the end of
\* the loop
transaction_data_in_L261 ==
    /\ pc = "L261"
    /\ pc' = IF chunks # <<>> THEN "L263" ELSE "L283"
    /\ UNCHANGED <<result, time, args, dataloc, checkloc, deadlines, stim, regs, obs>>
    /\ UNCHANGED session

\* 263-270: current = get_sim_time("us"); if current > request_deadline:
\* raise; self.packet_deadline = current + 5e2; sent_data = 1
transaction_data_in_L263 ==
    /\ pc = "L263"
    /\ IF time > request_deadline
       THEN /\ Raise("timeout")
            /\ report_xmit' = xmit
            /\ UNCHANGED <<packet_deadline, pkt_arms, sent_data, bi>>
       ELSE /\ packet_deadline' = time + DATA_IN_PACKET_TIME
            /\ pkt_arms' = pkt_arms + 1
            /\ sent_data' = 1
            /\ bi' = 0
            /\ pc' = "L274"
            /\ UNCHANGED <<result, report_xmit>>
    /\ UNCHANGED <<time, args, data, chunks, datax, checkloc, request_deadline,
                   req_arms, t_setup_ret, stim, regs, trace, toggles>>
    /\ UNCHANGED session

\* 273-274: for b in chunk: yield self.write(usb_in_data, b)
transaction_data_in_L274 ==
    /\ pc = "L274"
    /\ Write("usb_in_data", Head(chunks)[bi + 1])
    /\ bi' = bi + 1
    /\ pc' = IF bi + 1 < Len(Head(chunks)) THEN "L274" ELSE "L275"
    /\ UNCHANGED <<result, args, data, chunks, datax, sent_data, checkloc, deadlines,
                   stim, ev, regs_read, obs>>
    /\ UNCHANGED session

\* 275: yield self.write(usb_in_ctrl, epnum)
transaction_data_in_L275 ==
    /\ pc = "L275"
    /\ Write("usb_in_ctrl", 0)
    /\ pc' = "L276"
    /\ UNCHANGED <<result, args, dataloc, checkloc, deadlines, stim, ev, regs_read, obs>>
    /\ UNCHANGED session

\* 276: recv = cocotb.fork(self.host_recv(datax, addr, epnum, chunk))
transaction_data_in_L276 ==
    /\ pc = "L276"
    /\ Fork(None)
    /\ toggles' = Append(toggles, datax)
    /\ pc' = "L277"
    /\ UNCHANGED <<result, time, args, dataloc, checkloc, deadlines, regs, trace,
                   report_xmit>>
    /\ UNCHANGED session

\* 277: yield recv.join()
transaction_data_in_L277 ==
    /\ pc = "L277"
    /\ xmit = "done"
    /\ Tick
    /\ pc' = "L279"
    /\ UNCHANGED <<result, args, dataloc, checkloc, deadlines, stim, regs, obs>>
    /\ UNCHANGED session

\* 279-282: the toggle flips, and the loop goes to its next chunk
transaction_data_in_L279 ==
    /\ pc = "L279"
    /\ datax' = Flip(datax)
    /\ chunks' = Tail(chunks)
    /\ pc' = "L261"
    /\ UNCHANGED <<result, time, args, data, sent_data, bi, checkloc, deadlines,
                   stim, regs, obs>>
    /\ UNCHANGED session

\* 283: if not sent_data: ...; otherwise transaction_data_in returns
transaction_data_in_L283 ==
    /\ pc = "L283"
    /\ IF sent_data = 0
       THEN /\ pc' = "L284"
            /\ UNCHANGED <<result, trace, report_xmit>>
       ELSE /\ trace' = Append(trace, "transaction_data_in_ret")
            /\ report_xmit' = xmit
            /\ pc' = AfterData
            /\ result' = ResultAt(AfterData)
    /\ UNCHANGED <<time, args, dataloc, checkloc, deadlines, stim, regs, toggles>>
    /\ UNCHANGED session

\* 284: yield self.write(usb_in_ctrl, epnum)
transaction_data_in_L284 ==
    /\ pc = "L284"
    /\ Write("usb_in_ctrl", 0)
    /\ pc' = "L285"
    /\ UNCHANGED <<result, args, dataloc, checkloc, deadlines, stim, ev, regs_read, obs>>
    /\ UNCHANGED session

\* 285: recv = cocotb.fork(self.host_recv(datax, addr, epnum, []))
transaction_data_in_L285 ==
    /\ pc = "L285"
    /\ Fork(None)
    /\ toggles' = Append(toggles, datax)
    /\ pc' = "L213"
    /\ UNCHANGED <<result, time, args, dataloc, checkloc, deadlines, regs, trace,
                   report_xmit>>
    /\ UNCHANGED session

\* 286, 210-214: send_data(datax, epnum, data): data is empty here (no
\* chunk was cut from it), so no byte is written to usb_in_data;
\* 213: yield self.write(usb_in_ctrl, epnum & 0x0f)
send_data_L213 ==
    /\ pc = "L213"
    /\ data = <<>>
    /\ Write("usb_in_ctrl", BitAnd(0, 15))
    /\ pc' = "L287"
    /\ UNCHANGED <<result, args, dataloc, checkloc, deadlines, stim, ev, regs_read, obs>>
    /\ UNCHANGED session

\* 287: yield recv.join(), and transaction_data_in returns
transaction_data_in_L287 ==
    /\ pc = "L287"
    /\ xmit = "done"
    /\ Tick
    /\ trace' = Append(trace, "transaction_data_in_ret")
    /\ report_xmit' = xmit
    /\ pc' = AfterData
    /\ result' = ResultAt(AfterData)
    /\ UNCHANGED <<args, dataloc, checkloc, deadlines, stim, regs, toggles>>
    /\ UNCHANGED session

transaction_data_in ==
    \/ transaction_data_in_L261
    \/ transaction_data_in_L263
    \/ transaction_data_in_L274
    \/ transaction_data_in_L275
    \/ transaction_data_in_L276
    \/ transaction_data_in_L277
    \/ transaction_data_in_L279
    \/ transaction_data_in_L283
    \/ transaction_data_in_L284
    \/ transaction_data_in_L285
    \/ send_data_L213
    \/ transaction_data_in_L287

(***************************************************************************)
(* The status-stage primitives of the base class: the IN / OUT handshake   *)
(* with an empty payload, forked and joined.                               *)
(***************************************************************************)
\* transaction_status_in: xmit = fork(host_recv(DATA1, addr, epnum, []))
transaction_status_in_fork ==
    /\ pc = "L336"
    /\ trace' = Append(trace, "transaction_status_in")
    /\ Fork(None)
    /\ pc' = "L336_join"
    /\ UNCHANGED <<result, time, args, dataloc, checkloc, deadlines, regs, toggles,
                   report_xmit>>
    /\ UNCHANGED session

\* transaction_status_in: yield xmit.join()
transaction_status_in_join ==
    /\ pc = "L336_join"
    /\ xmit = "done"
    /\ Tick
    /\ trace' = Append(trace, "transaction_status_in_ret")
    /\ report_xmit' = xmit
    /\ pc' = "L337"
    /\ UNCHANGED <<result, args, dataloc, checkloc, deadlines, stim, regs, toggles>>
    /\ UNCHANGED session

\* transaction_status_out: xmit = fork(host_send(DATA1, addr, epnum, []))
transaction_status_out_fork ==
    /\ pc = "L398"
    /\ trace' = Append(trace, "transaction_status_out")
    /\ Fork(Some(<<>>))
    /\ pc' = "L398_join"
    /\ UNCHANGED <<result, time, args, dataloc, checkloc, deadlines, regs, toggles,
                   report_xmit>>
    /\ UNCHANGED session

\* transaction_status_out: yield xmit.join()
transaction_status_out_join ==
    /\ pc = "L398_join"
    /\ xmit = "done"
    /\ Tick
    /\ trace' = Append(trace, "transaction_status_out_ret")
    /\ report_xmit' = xmit
    /\ pc' = "L399"
    /\ UNCHANGED <<result, args, dataloc, checkloc, deadlines, stim, regs, toggles>>
    /\ UNCHANGED session

\* A direction test that looks at bit 6.
DirectionIn_Mut(s) == BitAnd(s[1], 64) = 64

(***************************************************************************)
(* control_transfer_out.                                                   *)
(***************************************************************************)
\* (setup_data[0] & 0x80) == 0x80
DirectionIn(s) == BitAnd(s[1], 128) = 128

\* A length test that looks at setup_data[6] only.
LengthNonZero_Mut(s) == s[7] # 0

\* setup_data[7] != 0 or setup_data[6] != 0
LengthNonZero(s) == s[8] # 0 \/ s[7] # 0

\* 316-327 and 370-381: the two consistency checks of setup_data against
\* descriptor_data; TRUE when one of them raises.
LengthMismatch(s, d) ==
    \/ LengthNonZero(s) /\ ~d.present
    \/ ~LengthNonZero(s) /\ d.present

\* 299-303: the direction check
control_transfer_out_L299 ==
    /\ pc = "L299"
    /\ IF DirectionIn(setup_data)
       THEN Raise("usage")
       ELSE pc' = "L305" /\ UNCHANGED result
    /\ UNCHANGED <<time, args, dataloc, checkloc, deadlines, stim, regs, obs>>
    /\ UNCHANGED session

\* 305: setup_ev = read(usb_setup_ev_pending); 309: transaction_setup is
\* called
control_transfer_out_L305 ==
    /\ pc = "L305"
    /\ \E v \in EvValues : ReadEv("usb_setup_ev_pending", v)
    /\ trace' = Append(trace, "transaction_setup")
    /\ pc' = "L220"
    /\ UNCHANGED <<result, args, dataloc, checkloc, deadlines, stim, wlog, usb_address, usb_pullup_out, toggles,
                   report_xmit>>
    /\ UNCHANGED session

\* 310: self.request_deadline = get_sim_time("us") + MAX_REQUEST_TIME
control_transfer_out_L310 ==
    /\ pc = "L310"
    /\ request_deadline' = time + MAX_REQUEST_TIME
    /\ req_arms' = req_arms + 1
    /\ pc' = "L312"
    /\ UNCHANGED <<result, time, args, dataloc, checkloc, packet_deadline, pkt_arms,
                   t_setup_ret, stim, regs, obs>>
    /\ UNCHANGED session

\* 312: setup_ev = read(usb_setup_ev_pending)
control_transfer_out_L312 ==
    /\ pc = "L312"
    /\ \E v \in EvValues : ReadEv("usb_setup_ev_pending", v)
    /\ pc' = "L313"
    /\ UNCHANGED <<result, args, dataloc, checkloc, deadlines, stim, wlog, usb_address, usb_pullup_out, obs>>
    /\ UNCHANGED session

\* A line 313 that does not write the value back.
control_transfer_out_L313_Mut ==
    /\ pc = "L313"
    /\ pc' = "L316"
    /\ UNCHANGED <<result, time, args, dataloc, checkloc, deadlines, stim, regs, obs>>
    /\ UNCHANGED session

\* 313: write(usb_setup_ev_pending, setup_ev)
control_transfer_out_L313 ==
    /\ pc = "L313"
    /\ Write("usb_setup_ev_pending", ev)
    /\ pc' = "L316"
    /\ UNCHANGED <<result, args, dataloc, checkloc, deadlines, stim, ev, regs_read, obs>>
    /\ UNCHANGED session

\* 316-327: the data/length consistency checks
control_transfer_out_L316 ==
    /\ pc = "L316"
    /\ IF LengthMismatch(setup_data, descriptor_data)
       THEN Raise("usage")
       ELSE pc' = "L328" /\ UNCHANGED result
    /\ UNCHANGED <<time, args, dataloc, checkloc, deadlines, stim, regs, obs>>
    /\ UNCHANGED session

\* A line 328 that goes to the status stage whatever descriptor_data is.
control_transfer_out_L328_Mut ==
    /\ pc = "L328"
    /\ pc' = "L334"
    /\ UNCHANGED <<result, time, args, dataloc, checkloc, deadlines, stim, regs, obs>>
    /\ UNCHANGED session

\* 328-330: if descriptor_data is not None:
\*     yield self.transaction_data_out(addr, epaddr_out, descriptor_data)
control_transfer_out_L328 ==
    /\ pc = "L328"
    /\ IF descriptor_data.present
       THEN /\ data' = descriptor_data.bytes
            /\ chunk_size' = DEFAULT_CHUNK_SIZE
            /\ chunks' = grouper_tofit(DEFAULT_CHUNK_SIZE, descriptor_data.bytes)
            /\ expected' = ACK
            /\ start_datax' = DATA1
            /\ datax' = DATA1
            /\ trace' = Append(trace, "transaction_data_out")
            /\ pc' = "L236"
       ELSE /\ pc' = "L334"
            /\ UNCHANGED <<data, chunk_size, chunks, expected, start_datax, datax, trace>>
    /\ UNCHANGED <<result, time, op, setup_data, descriptor_data, sent_data, bi,
                   checkloc, deadlines, stim, regs, toggles, report_xmit>>
    /\ UNCHANGED session

\* A status stage that runs on the packet deadline of the stage before it.
control_transfer_out_L334_Mut ==
    /\ pc = "L334"
    /\ pc' = "L335"
    /\ UNCHANGED <<result, time, args, dataloc, checkloc, deadlines, stim, regs, obs>>
    /\ UNCHANGED session

\* 334: self.packet_deadline = get_sim_time("us") + MAX_PACKET_TIME
control_transfer_out_L334 ==
    /\ pc = "L334"
    /\ packet_deadline' = time + MAX_PACKET_TIME
    /\ pkt_arms' = pkt_arms + 1
    /\ pc' = "L335"
    /\ UNCHANGED <<result, time, args, dataloc, checkloc, request_deadline, req_arms,
                   t_setup_ret, stim, regs, obs>>
    /\ UNCHANGED session

\* 335: write(usb_in_ctrl, 0); 336: transaction_status_in is called
control_transfer_out_L335 ==
    /\ pc = "L335"
    /\ Write("usb_in_ctrl", 0)
    /\ pc' = "L336"
    /\ UNCHANGED <<result, args, dataloc, checkloc, deadlines, stim, ev, regs_read, obs>>
    /\ UNCHANGED session

\* 337: yield RisingEdge(clk12)
control_transfer_out_L337 ==
    /\ pc = "L337"
    /\ Tick
    /\ pc' = "L338"
    /\ UNCHANGED <<result, args, dataloc, checkloc, deadlines, stim, regs, obs>>
    /\ UNCHANGED session

\* 338: yield RisingEdge(clk12)
control_transfer_out_L338 ==
    /\ pc = "L338"
    /\ Tick
    /\ pc' = "L339"
    /\ UNCHANGED <<result, args, dataloc, checkloc, deadlines, stim, regs, obs>>
    /\ UNCHANGED session

\* 339: in_ev = read(usb_in_ev_pending)
control_transfer_out_L339 ==
    /\ pc = "L339"
    /\ \E v \in EvValues : ReadEv("usb_in_ev_pending", v)
    /\ pc' = "L340"
    /\ UNCHANGED <<result, args, dataloc, checkloc, deadlines, stim, wlog, usb_address, usb_pullup_out, obs>>
    /\ UNCHANGED session

\* A status stage that resets the IN buffer before it clears the event.
control_transfer_out_L340_Mut ==
    /\ pc = "L340"
    /\ Write("usb_in_ctrl", 32)
    /\ pc' = "L341"
    /\ UNCHANGED <<result, args, dataloc, checkloc, deadlines, stim, ev, regs_read, obs>>
    /\ UNCHANGED session

\* 340: write(usb_in_ev_pending, in_ev)
control_transfer_out_L340 ==
    /\ pc = "L340"
    /\ Write("usb_in_ev_pending", ev)
    /\ pc' = "L341"
    /\ UNCHANGED <<result, args, dataloc, checkloc, deadlines, stim, ev, regs_read, obs>>
    /\ UNCHANGED session

\* 341: write(usb_in_ctrl, 1 << 5)
control_transfer_out_L341 ==
    /\ pc = "L341"
    /\ Write("usb_in_ctrl", 32)
    /\ pc' = "L344"
    /\ UNCHANGED <<result, args, dataloc, checkloc, deadlines, stim, ev, regs_read, obs>>
    /\ UNCHANGED session

\* A final check that fails at the deadline itself.
control_transfer_out_L344_Mut ==
    /\ pc = "L344"
    /\ IF time >= request_deadline THEN Raise("timeout") ELSE Return
    /\ UNCHANGED <<time, args, dataloc, checkloc, deadlines, stim, regs, obs>>
    /\ UNCHANGED session

\* 344-345: if get_sim_time("us") > self.request_deadline: raise
control_transfer_out_L344 ==
    /\ pc = "L344"
    /\ IF time > request_deadline THEN Raise("timeout") ELSE Return
    /\ UNCHANGED <<time, args, dataloc, checkloc, deadlines, stim, regs, obs>>
    /\ UNCHANGED session

control_transfer_out ==
    \/ control_transfer_out_L299
    \/ control_transfer_out_L305
    \/ control_transfer_out_L310
    \/ control_transfer_out_L312
    \/ control_transfer_out_L313
    \/ control_transfer_out_L316
    \/ control_transfer_out_L328
    \/ control_transfer_out_L334
    \/ control_transfer_out_L335
    \/ transaction_status_in_fork
    \/ transaction_status_in_join
    \/ control_transfer_out_L337
    \/ control_transfer_out_L338
    \/ control_transfer_out_L339
    \/ control_transfer_out_L340
    \/ control_transfer_out_L341
    \/ control_transfer_out_L344

(***************************************************************************)
(* control_transfer_in.                                                    *)
(***************************************************************************)
\* 352-356: the direction check
control_transfer_in_L352 ==
    /\ pc = "L352"
    /\ IF ~DirectionIn(setup_data)
       THEN Raise("usage")
       ELSE pc' = "L358" /\ UNCHANGED result
    /\ UNCHANGED <<time, args, dataloc, checkloc, deadlines, stim, regs, obs>>
    /\ UNCHANGED session

\* 358: setup_ev = read(usb_setup_ev_pending); 362: transaction_setup is
\* called
control_transfer_in_L358 ==
    /\ pc = "L358"
    /\ \E v \in EvValues : ReadEv("usb_setup_ev_pending", v)
    /\ trace' = Append(trace, "transaction_setup")
    /\ pc' = "L220"
    /\ UNCHANGED <<result, args, dataloc, checkloc, deadlines, stim, wlog, usb_address, usb_pullup_out, toggles,
                   report_xmit>>
    /\ UNCHANGED session

\* 363: self.request_deadline = get_sim_time("us") + MAX_REQUEST_TIME
control_transfer_in_L363 ==
    /\ pc = "L363"
    /\ request_deadline' = time + MAX_REQUEST_TIME
    /\ req_arms' = req_arms + 1
    /\ pc' = "L365"
    /\ UNCHANGED <<result, time, args, dataloc, checkloc, packet_deadline, pkt_arms,
                   t_setup_ret, stim, regs, obs>>
    /\ UNCHANGED session

\* 365: setup_ev = read(usb_setup_ev_pending)
control_transfer_in_L365 ==
    /\ pc = "L365"
    /\ \E v \in EvValues : ReadEv("usb_setup_ev_pending", v)
    /\ pc' = "L366"
    /\ UNCHANGED <<result, args, dataloc, checkloc, deadlines, stim, wlog, usb_address, usb_pullup_out, obs>>
    /\ UNCHANGED session

\* 366: write(usb_setup_ev_pending, setup_ev)
control_transfer_in_L366 ==
    /\ pc = "L366"
    /\ Write("usb_setup_ev_pending", ev)
    /\ pc' = "L369"
    /\ UNCHANGED <<result, args, dataloc, checkloc, deadlines, stim, ev, regs_read, obs>>
    /\ UNCHANGED session

\* 369: in_ev = read(usb_in_ev_pending)
control_transfer_in_L369 ==
    /\ pc = "L369"
    /\ \E v \in EvValues : ReadEv("usb_in_ev_pending", v)
    /\ pc' = "L370"
    /\ UNCHANGED <<result, args, dataloc, checkloc, deadlines, stim, wlog, usb_address, usb_pullup_out, obs>>
    /\ UNCHANGED session

\* 370-381: the data/length consistency checks
control_transfer_in_L370 ==
    /\ pc = "L370"
    /\ IF LengthMismatch(setup_data, descriptor_data)
       THEN Raise("usage")
       ELSE pc' = "L382" /\ UNCHANGED result
    /\ UNCHANGED <<time, args, dataloc, checkloc, deadlines, stim, regs, obs>>
    /\ UNCHANGED session

\* 382-384: if descriptor_data is not None:
\*     yield self.transaction_data_in(addr, epaddr_in, descriptor_data)
control_transfer_in_L382 ==
    /\ pc = "L382"
    /\ IF descriptor_data.present
       THEN /\ data' = descriptor_data.bytes
            /\ chunk_size' = DEFAULT_CHUNK_SIZE
            /\ chunks' = grouper_tofit(DEFAULT_CHUNK_SIZE, descriptor_data.bytes)
            /\ start_datax' = DATA1
            /\ datax' = DATA1
            /\ sent_data' = 0
            /\ trace' = Append(trace, "transaction_data_in")
            /\ pc' = "L261"
       ELSE /\ pc' = "L394"
            /\ UNCHANGED <<data, chunk_size, chunks, start_datax, datax, sent_data, trace>>
    /\ UNCHANGED <<result, time, op, setup_data, descriptor_data, expected, bi, checkloc,
                   deadlines, stim, regs, toggles, report_xmit>>
    /\ UNCHANGED session

\* 388: yield RisingEdge(clk12)
control_transfer_in_L388 ==
    /\ pc = "L388"
    /\ Tick
    /\ pc' = "L389"
    /\ UNCHANGED <<result, args, dataloc, checkloc, deadlines, stim, regs, obs>>
    /\ UNCHANGED session

\* 389: yield RisingEdge(clk12)
control_transfer_in_L389 ==
    /\ pc = "L389"
    /\ Tick
    /\ pc' = "L390"
    /\ UNCHANGED <<result, args, dataloc, checkloc, deadlines, stim, regs, obs>>
    /\ UNCHANGED session

\* 390: in_ev = read(usb_in_ev_pending)
control_transfer_in_L390 ==
    /\ pc = "L390"
    /\ \E v \in EvValues : ReadEv("usb_in_ev_pending", v)
    /\ pc' = "L391"
    /\ UNCHANGED <<result, args, dataloc, checkloc, deadlines, stim, wlog, usb_address, usb_pullup_out, obs>>
    /\ UNCHANGED session

\* 391: write(usb_in_ev_pending, in_ev)
control_transfer_in_L391 ==
    /\ pc = "L391"
    /\ Write("usb_in_ev_pending", ev)
    /\ pc' = "L394"
    /\ UNCHANGED <<result, args, dataloc, checkloc, deadlines, stim, ev, regs_read, obs>>
    /\ UNCHANGED session

\* A status stage that is not started when the request deadline has passed
\* at the end of the data stage.
control_transfer_in_L394_Mut ==
    /\ pc = "L394"
    /\ IF time > request_deadline
       THEN Raise("timeout") /\ UNCHANGED <<packet_deadline, pkt_arms>>
       ELSE /\ packet_deadline' = time + MAX_PACKET_TIME
            /\ pkt_arms' = pkt_arms + 1
            /\ pc' = "L395"
            /\ UNCHANGED result
    /\ UNCHANGED <<time, args, dataloc, checkloc, request_deadline, req_arms,
                   t_setup_ret, stim, regs, obs>>
    /\ UNCHANGED session

\* 394: self.packet_deadline = get_sim_time("us") + MAX_PACKET_TIME
control_transfer_in_L394 ==
    /\ pc = "L394"
    /\ packet_deadline' = time + MAX_PACKET_TIME
    /\ pkt_arms' = pkt_arms + 1
    /\ pc' = "L395"
    /\ UNCHANGED <<result, time, args, dataloc, checkloc, request_deadline, req_arms,
                   t_setup_ret, stim, regs, obs>>
    /\ UNCHANGED session

\* 395: write(usb_out_ctrl, 0x10)
control_transfer_in_L395 ==
    /\ pc = "L395"
    /\ Write("usb_out_ctrl", 16)
    /\ pc' = "L397"
    /\ UNCHANGED <<result, args, dataloc, checkloc, deadlines, stim, ev, regs_read, obs>>
    /\ UNCHANGED session

\* 397: out_ev = read(usb_out_ev_pending); 398: transaction_status_out is
\* called
control_transfer_in_L397 ==
    /\ pc = "L397"
    /\ \E v \in EvValues : ReadEv("usb_out_ev_pending", v)
    /\ pc' = "L398"
    /\ UNCHANGED <<result, args, dataloc, checkloc, deadlines, stim, wlog, usb_address, usb_pullup_out, obs>>
    /\ UNCHANGED session

\* 399: yield RisingEdge(clk12)
control_transfer_in_L399 ==
    /\ pc = "L399"
    /\ Tick
    /\ pc' = "L400"
    /\ UNCHANGED <<result, args, dataloc, checkloc, deadlines, stim, regs, obs>>
    /\ UNCHANGED session

\* 400: out_ev = read(usb_out_ev_pending)
control_transfer_in_L400 ==
    /\ pc = "L400"
    /\ \E v \in EvValues : ReadEv("usb_out_ev_pending", v)
    /\ pc' = "L401"
    /\ UNCHANGED <<result, args, dataloc, checkloc, deadlines, stim, wlog, usb_address, usb_pullup_out, obs>>
    /\ UNCHANGED session

\* 401: write(usb_out_ctrl, 0x20)
control_transfer_in_L401 ==
    /\ pc = "L401"
    /\ Write("usb_out_ctrl", 32)
    /\ pc' = "L402"
    /\ UNCHANGED <<result, args, dataloc, checkloc, deadlines, stim, ev, regs_read, obs>>
    /\ UNCHANGED session

\* 402: write(usb_out_ev_pending, out_ev)
control_transfer_in_L402 ==
    /\ pc = "L402"
    /\ Write("usb_out_ev_pending", ev)
    /\ pc' = "L405"
    /\ UNCHANGED <<result, args, dataloc, checkloc, deadlines, stim, ev, regs_read, obs>>
    /\ UNCHANGED session

\* 405-406: if get_sim_time("us") > self.request_deadline: raise
control_transfer_in_L405 ==
    /\ pc = "L405"
    /\ IF time > request_deadline THEN Raise("timeout") ELSE Return
    /\ UNCHANGED <<time, args, dataloc, checkloc, deadlines, stim, regs, obs>>
    /\ UNCHANGED session

control_transfer_in ==
    \/ control_transfer_in_L352
    \/ control_transfer_in_L358
    \/ control_transfer_in_L363
    \/ control_transfer_in_L365
    \/ control_transfer_in_L366
    \/ control_transfer_in_L369
    \/ control_transfer_in_L370
    \/ control_transfer_in_L382
    \/ control_transfer_in_L388
    \/ control_transfer_in_L389
    \/ control_transfer_in_L390
    \/ control_transfer_in_L391
    \/ control_transfer_in_L394
    \/ control_transfer_in_L395
    \/ control_transfer_in_L397
    \/ transaction_status_out_fork
    \/ transaction_status_out_join
    \/ control_transfer_in_L399
    \/ control_transfer_in_L400
    \/ control_transfer_in_L401
    \/ control_transfer_in_L402
    \/ control_transfer_in_L405

(***************************************************************************)
(* The specification.                                                      *)
(***************************************************************************)
Next ==
    \/ Call_control_transfer_out
    \/ Call_control_transfer_in
    \/ Call_transaction_setup
    \/ Call_transaction_data_out
    \/ Call_transaction_data_in
    \/ control_transfer_out
    \/ control_transfer_in
    \/ transaction_setup
    \/ expect_setup
    \/ transaction_data_out
    \/ expect_data
    \/ transaction_data_in
    \/ StimSend
    \/ StimDone

Spec == Init /\ [][Next]_vars

(***************************************************************************)
(* The program on a bus that can fail: self.wb.write / self.wb.read        *)
(* (lines 53, 57) raise, and nothing between the register access and the   *)
(* harness catches the exception.                                          *)
(***************************************************************************)
\* Lines at which the main coroutine is in a register access.
RegisterAccessPcs ==
    { "L100", "L108", "L112", "L128", "L167", "L175", "L179", "L194", "L197",
      "L213", "L241", "L274", "L275", "L284",
      "L305", "L312", "L313", "L335", "L339", "L340", "L341",
      "L358", "L365", "L366", "L369", "L390", "L391", "L395", "L397",
      "L400", "L401", "L402" }

\* 53, 57: the register access fails at the bus and the exception leaves
\* the call; the register is neither written nor read.
TransportError ==
    /\ pc \in RegisterAccessPcs
    /\ Raise("transport")
    /\ Tick
    /\ report_xmit' = IF xmit = "running" THEN xmit ELSE report_xmit
    /\ UNCHANGED <<args, dataloc, checkloc, deadlines, stim, regs, trace, toggles>>
    /\ UNCHANGED session

NextTransport ==
    \/ Next
    \/ TransportError

SpecTransport == Init /\ [][NextTransport]_vars

(***************************************************************************)
(* The primitives that poll, against a babbling device.  The scheduler     *)
(* resumes a coroutine whose register access has completed or whose clock  *)
(* edge has come, and the clock does not stop: a step that can be taken    *)
(* is taken.                                                               *)
(***************************************************************************)
InitPoll == InitDevice("babble")

\* The harness calls a primitive that polls.
Call_polling ==
    \/ Call_transaction_setup_with(<<0, 9, 1, 0, 0, 0, 0, 0>>)
    \/ \E e \in {ACK, NAK} : Call_transaction_data_out_with(<<7, 8>>, 1, e, DATA1)

NextPoll ==
    \/ Call_polling
    \/ transaction_setup
    \/ expect_setup
    \/ transaction_data_out
    \/ expect_data
    \/ StimSend
    \/ StimDone

SpecPoll == InitPoll /\ [][NextPoll]_vars /\ WF_vars(NextPoll)

(***************************************************************************)
(* The session operations: reset, connect, disconnect, set_device_address  *)
(* and pending, called one after the other by the harness.                 *)
(***************************************************************************)
\* What the transfers use and the session operations leave alone.
transfer ==
    <<result, setup_data, descriptor_data, expected, chunk_size, start_datax,
      dataloc, checkloc, deadlines, stim, ev, obs, device>>

\* EndpointType.epdir / EndpointType.epnum: bit 7 of an endpoint address is
\* the direction, bits 0-3 the endpoint number.
epdir(e) == IF Bit(e, 7) = 1 THEN "IN" ELSE "OUT"
epnum(e) == e % 16

\* Endpoint addresses handed to pending: endpoints 0 and 1, OUT and IN.
EndpointAddresses == {0, 1, 128, 129}

\* Values a status register reads as.
StatusValues == 0..MaxStatus

\* a | b
BitOr(a, b) == a + b - BitAnd(a, b)

\* Python's truth value of an integer, and True / False as integers.
Truthy(v) == v # 0
Bool(b) == IF b THEN 1 ELSE 0

\* 88: val & (1 << 4)
pending_in_value(v) == BitAnd(v, 16)

\* 91-92: (val & (1 << 5) | (1 << 4)) and (epnum(ep) == (val & 0x0f)):
\* & binds tighter than |, and `x and y` is x when x is false, else y.
pending_out_value(e, v) ==
    LET x == BitOr(BitAnd(v, 32), 16)
    IN IF Truthy(x) THEN Bool(epnum(e) = BitAnd(v, 15)) ELSE x

\* The harness calls a session operation: the logs of the call start empty.
CallSession(o, line) ==
    /\ pc = "idle"
    /\ op' = o
    /\ pc' = line
    /\ wlog' = <<>>
    /\ regs_read' = {}

\* One register write of a session operation, from line `from` to `to`.
SessionWrite(o, from, to, reg, v) ==
    /\ op = o
    /\ pc = from
    /\ Write(reg, v)
    /\ pc' = to
    /\ UNCHANGED <<regs_read, address, ep, val, ret>>
    /\ UNCHANGED transfer

Call_reset ==
    /\ CallSession("reset", "L39")
    /\ UNCHANGED <<time, ev_seen, usb_address, usb_pullup_out, address, ep, val, ret>>
    /\ UNCHANGED transfer

\* 39: yield super().reset(): the base class forgets the device address.
reset_L39 ==
    /\ op = "reset"
    /\ pc = "L39"
    /\ address' = 0
    /\ Tick
    /\ pc' = "L42"
    /\ UNCHANGED <<op, ev_seen, wlog, regs_read, usb_address, usb_pullup_out, ep, val, ret>>
    /\ UNCHANGED transfer

\* 42-44: the event enables; 46-48: every pending event is cleared;
\* 49: write(usb_address, 0)
reset ==
    \/ reset_L39
    \/ SessionWrite("reset", "L42", "L43", "usb_setup_ev_enable", 255) /\ op' = op
    \/ SessionWrite("reset", "L43", "L44", "usb_in_ev_enable", 255) /\ op' = op
    \/ SessionWrite("reset", "L44", "L46", "usb_out_ev_enable", 255) /\ op' = op
    \/ SessionWrite("reset", "L46", "L47", "usb_setup_ev_pending", 255) /\ op' = op
    \/ SessionWrite("reset", "L47", "L48", "usb_in_ev_pending", 255) /\ op' = op
    \/ SessionWrite("reset", "L48", "L49", "usb_out_ev_pending", 255) /\ op' = op
    \/ SessionWrite("reset", "L49", "idle", "usb_address", 0) /\ op' = op

Call_connect ==
    /\ CallSession("connect", "L63")
    /\ UNCHANGED <<time, ev_seen, usb_address, usb_pullup_out, address, ep, val, ret>>
    /\ UNCHANGED transfer

\* 63: yield self.write(USB_PULLUP_OUT, 1)
connect ==
    SessionWrite("connect", "L63", "idle", "usb_pullup_out", 1) /\ op' = op

Call_disconnect ==
    /\ CallSession("disconnect", "L81")
    /\ UNCHANGED <<time, ev_seen, usb_address, usb_pullup_out, address, ep, val, ret>>
    /\ UNCHANGED transfer

\* 81: self.address = 0
disconnect_L81 ==
    /\ op = "disconnect"
    /\ pc = "L81"
    /\ address' = 0
    /\ pc' = "L82"
    /\ UNCHANGED <<op, time, ev_seen, wlog, regs_read, usb_address, usb_pullup_out,
                   ep, val, ret>>
    /\ UNCHANGED transfer

\* 82: yield self.write(USB_PULLUP_OUT, 0)
disconnect ==
    \/ disconnect_L81
    \/ SessionWrite("disconnect", "L82", "idle", "usb_pullup_out", 0) /\ op' = op

Call_set_device_address ==
    /\ CallSession("set_device_address", "L410")
    /\ \E a \in 0..MaxAddr : val' = a
    /\ UNCHANGED <<time, ev_seen, usb_address, usb_pullup_out, address, ep, ret>>
    /\ UNCHANGED transfer

\* 410: yield super().set_device_address(address): the base class keeps the
\* address for the rest of the session; no register is written.
set_device_address ==
    /\ op = "set_device_address"
    /\ pc = "L410"
    /\ address' = val
    /\ Tick
    /\ pc' = "idle"
    /\ UNCHANGED <<op, ev_seen, wlog, regs_read, usb_address, usb_pullup_out, ep, val, ret>>
    /\ UNCHANGED transfer

Call_pending ==
    /\ \E e \in EndpointAddresses :
          /\ ep' = e
          /\ CallSession("pending", IF epdir(e) = "IN" THEN "L87" ELSE "L90")
    /\ UNCHANGED <<time, ev_seen, usb_address, usb_pullup_out, address, val, ret>>
    /\ UNCHANGED transfer

\* 87-88: val = read(usb_in_status); return val & (1 << 4)
pending_L87 ==
    /\ op = "pending"
    /\ pc = "L87"
    /\ \E v \in StatusValues :
          /\ val' = v
          /\ ret' = pending_in_value(v)
    /\ regs_read' = regs_read \cup {"usb_in_status"}
    /\ Tick
    /\ pc' = "idle"
    /\ UNCHANGED <<op, ev_seen, wlog, usb_address, usb_pullup_out, address, ep>>
    /\ UNCHANGED transfer

\* 90-92: val = read(usb_out_status); return ... and ...
pending_L90 ==
    /\ op = "pending"
    /\ pc = "L90"
    /\ \E v \in StatusValues :
          /\ val' = v
          /\ ret' = pending_out_value(ep, v)
    /\ regs_read' = regs_read \cup {"usb_out_status"}
    /\ Tick
    /\ pc' = "idle"
    /\ UNCHANGED <<op, ev_seen, wlog, usb_address, usb_pullup_out, address, ep>>
    /\ UNCHANGED transfer

pending ==
    \/ pending_L87
    \/ pending_L90

NextSession ==
    \/ Call_reset
    \/ Call_connect
    \/ Call_disconnect
    \/ Call_set_device_address
    \/ Call_pending
    \/ reset
    \/ connect
    \/ disconnect
    \/ set_device_address
    \/ pending

SpecSession == Init /\ [][NextSession]_vars

(***************************************************************************)
(* Vocabulary of the properties.                                           *)
(***************************************************************************)
IsControl == op \in {"control_transfer_out", "control_transfer_in"}

InTrace(x) == \E k \in DOMAIN trace : trace[k] = x

IsPrefix(a, b) == Len(a) <= Len(b) /\ SubSeq(b, 1, Len(a)) = a

\* The writes of this call to one register, in order.
WritesTo(reg) == SelectSeq(wlog, LAMBDA e : e[1] = reg)

\* Bit 7 of setup_data[0] is set.
SetupSaysIn == Bit(setup_data[1], 7) = 1

\* The direction bit contradicts the transfer called.
WrongDirection ==
    \/ op = "control_transfer_out" /\ SetupSaysIn
    \/ op = "control_transfer_in" /\ ~SetupSaysIn

\* Exactly one of (setup bytes 6-7 not both zero) and (descriptor_data
\* present) holds.
ExactlyOneOfLengthAndData ==
    (setup_data[7] # 0 \/ setup_data[8] # 0) # descriptor_data.present

\* The primitives of the data stage and of the status stage.
DataPrimitives == {"transaction_data_out", "transaction_data_in"}
StatusPrimitives == {"transaction_status_in", "transaction_status_out"}

\* The status stage of this transfer has returned.
StatusReturned ==
    InTrace("transaction_status_in_ret") \/ InTrace("transaction_status_out_ret")

\* The main coroutine is inside transaction_setup.
InSetup == InTrace("transaction_setup") /\ ~InTrace("transaction_setup_ret")

\* No register traffic and no deadline touched by this call.
Untouched ==
    /\ wlog = <<>>
    /\ regs_read = {}
    /\ req_arms = 0
    /\ pkt_arms = 0
    /\ request_deadline = 0
    /\ packet_deadline = 0

(***************************************************************************)
(* C1.  A control transfer whose direction bit contradicts the function    *)
(* called (control_transfer_out with bit 7 of setup_data[0] set,           *)
(* control_transfer_in with it clear) ends in a usage error, and at that   *)
(* moment the call has read and written no register and has changed        *)
(* neither deadline.                                                       *)
(***************************************************************************)
C1_DirectionErrorBeforeRegisters ==
    WrongDirection =>
        \/ pc \in {"L299", "L352"}
        \/ result = "usage" /\ pc = "raised" /\ Untouched

C1_Witness ==
    /\ op = "control_transfer_out"
    /\ SetupSaysIn
    /\ result = "usage"

(***************************************************************************)
(* C2.  As claimed: every usage error of a control transfer, the           *)
(* data/length mismatch included, is raised before any register traffic.   *)
(***************************************************************************)
C2_UsageErrorBeforeAnyTraffic ==
    IsControl /\ result = "usage" => wlog = <<>> /\ regs_read = {}

(***************************************************************************)
(* C2, amended.  The usage error of the direction bit is raised before     *)
(* any register traffic.  The usage error of the data/length mismatch is   *)
(* raised after the setup stage: transaction_setup has returned (it wrote  *)
(* 2 to usb_setup_ctrl), the request deadline is armed,                    *)
(* usb_setup_ev_pending has been read and written back, and these two      *)
(* writes are the only ones; no primitive of the data or status stage has  *)
(* been invoked.                                                           *)
(***************************************************************************)
C2_UsageErrorTraffic ==
    IsControl /\ result = "usage" =>
        \/ WrongDirection /\ Untouched
        \/ /\ ~WrongDirection
           /\ ExactlyOneOfLengthAndData
           /\ trace = <<"transaction_setup", "transaction_setup_ret">>
           /\ Len(wlog) = 2
           /\ wlog[1] = <<"usb_setup_ctrl", 2>>
           /\ wlog[2][1] = "usb_setup_ev_pending"
           /\ "usb_setup_ev_pending" \in regs_read
           /\ req_arms = 1
           /\ pkt_arms = 0

C2_Witness ==
    /\ op = "control_transfer_in"
    /\ result = "usage"
    /\ ~WrongDirection
    /\ "usb_in_ev_pending" \in regs_read

(***************************************************************************)
(* C3.  As claimed: whenever exactly one of (length non-zero) and          *)
(* (descriptor_data present) holds, the call ends in a usage error and no  *)
(* data-stage or status-stage primitive is invoked; otherwise the check    *)
(* raises no usage error.                                                  *)
(***************************************************************************)
C3_MismatchEndsInUsageError ==
    IsControl =>
        /\ ExactlyOneOfLengthAndData =>
              /\ result \in {"none", "usage"}
              /\ \A x \in DataPrimitives \cup StatusPrimitives : ~InTrace(x)
        /\ ~ExactlyOneOfLengthAndData /\ ~WrongDirection => result # "usage"

(***************************************************************************)
(* C3, amended.  Whenever exactly one of the two holds, no data-stage or   *)
(* status-stage primitive is invoked and the call ends in an error: the    *)
(* usage error, unless the setup transaction fails first, and then its     *)
(* validation failure.  Once transaction_setup has returned and the check  *)
(* has run, the call has ended in the usage error.  Whenever both or       *)
(* neither hold, the check raises no usage error.                          *)
(***************************************************************************)
C3_MismatchNeverReachesData ==
    IsControl =>
        /\ ExactlyOneOfLengthAndData =>
              /\ result \in {"none", "usage", "validation"}
              /\ result = "validation" => InSetup
              /\ InTrace("transaction_setup_ret")
                    /\ pc \notin {"L310", "L312", "L313", "L316",
                                  "L363", "L365", "L366", "L369", "L370"}
                    => result = "usage"
              /\ \A x \in DataPrimitives \cup StatusPrimitives : ~InTrace(x)
        /\ ~ExactlyOneOfLengthAndData /\ ~WrongDirection => result # "usage"

C3_Witness ==
    /\ op = "control_transfer_out"
    /\ setup_data[7] = 0
    /\ setup_data[8] # 0
    /\ ~descriptor_data.present
    /\ ~WrongDirection
    /\ InTrace("transaction_setup_ret")
    /\ result = "usage"

(***************************************************************************)
(* C4.  The primitives of a control transfer are invoked in the order      *)
(* SETUP, DATA (if and only if descriptor_data is present, and then        *)
(* once), STATUS, each after the one before it has returned, none twice;   *)
(* a transfer that completes has run all of them.                          *)
(***************************************************************************)
Returned(x) ==
    CASE x = "transaction_setup" -> "transaction_setup_ret"
      [] x = "transaction_data_out" -> "transaction_data_out_ret"
      [] x = "transaction_data_in" -> "transaction_data_in_ret"
      [] x = "transaction_status_in" -> "transaction_status_in_ret"
      [] x = "transaction_status_out" -> "transaction_status_out_ret"

StagesOf(o, d) ==
    LET dataprim == IF o = "control_transfer_out"
                    THEN "transaction_data_out" ELSE "transaction_data_in"
        statprim == IF o = "control_transfer_out"
                    THEN "transaction_status_in" ELSE "transaction_status_out"
    IN <<"transaction_setup", Returned("transaction_setup")>>
       \o (IF d.present THEN <<dataprim, Returned(dataprim)>> ELSE <<>>)
       \o <<statprim, Returned(statprim)>>

C4_StageOrder ==
    IsControl =>
        /\ IsPrefix(trace, StagesOf(op, descriptor_data))
        /\ pc = "done" \/ result = "ok" => trace = StagesOf(op, descriptor_data)

C4_Witness ==
    /\ op = "control_transfer_out"
    /\ setup_data = <<0, 9, 1, 0, 0, 0, 0, 0>>
    /\ ~descriptor_data.present
    /\ result = "ok"
    /\ trace = <<"transaction_setup", "transaction_setup_ret",
                 "transaction_status_in", "transaction_status_in_ret">>

(***************************************************************************)
(* C5.  As claimed: when a transaction primitive returns or raises, its    *)
(* forked stimulus task has completed.                                     *)
(***************************************************************************)
C5_NoOutcomeWhileForkedTaskRuns == report_xmit # "running"

(***************************************************************************)
(* C6.  The request deadline is assigned once per control transfer, to     *)
(* the time at which transaction_setup returned plus MAX_REQUEST_TIME; a   *)
(* transfer that has come through its status stage ends in the timeout     *)
(* failure when the time then is greater than the deadline and in success  *)
(* when it is not.                                                         *)
(***************************************************************************)
C6_RequestDeadline ==
    IsControl =>
        /\ req_arms <= 1
        /\ req_arms = 1 <=> InTrace("transaction_setup_ret") /\ pc \notin {"L310", "L363"}
        /\ req_arms = 1 => request_deadline = t_setup_ret + MAX_REQUEST_TIME
        /\ StatusReturned /\ pc \in {"done", "raised"} =>
              \/ time > request_deadline /\ result = "timeout"
              \/ time <= request_deadline /\ result = "ok"
        /\ result = "ok" => StatusReturned

C6_Witness ==
    /\ op = "control_transfer_out"
    /\ StatusReturned
    /\ result = "timeout"
    /\ time > request_deadline

(***************************************************************************)
(* C7.  As claimed: in both control transfers the timeout failure is       *)
(* raised only after every chunk of the data stage and the status stage    *)
(* have run.                                                               *)
(***************************************************************************)
C7_TimeoutOnlyAtEnd ==
    IsControl /\ result = "timeout" => StatusReturned /\ chunks = <<>>

(***************************************************************************)
(* C7, amended.  In control_transfer_out the timeout failure is raised     *)
(* only after every chunk of the data stage and the status stage have      *)
(* run.  In control_transfer_in it is raised either then, or by            *)
(* transaction_data_in before a chunk of the data stage: no byte of that   *)
(* chunk is written, the chunks left and the status stage do not run.      *)
(***************************************************************************)
C7_TimeoutAtEndOrBeforeChunk ==
    IsControl /\ result = "timeout" =>
        \/ StatusReturned /\ chunks = <<>>
        \/ /\ op = "control_transfer_in"
           /\ trace = <<"transaction_setup", "transaction_setup_ret",
                        "transaction_data_in">>
           /\ chunks # <<>>
           /\ Len(WritesTo("usb_in_data")) + Len(chunks[1])
                 + (Len(chunks) - 1) * chunk_size = Len(data)
           /\ time > request_deadline

C7_Witness ==
    /\ op = "control_transfer_in"
    /\ descriptor_data.present
    /\ descriptor_data.bytes # <<>>
    /\ StatusReturned
    /\ result = "timeout"

(***************************************************************************)
(* C8.  In transaction_data_out and transaction_data_in the k-th chunk     *)
(* (k from 0) is handed to the forked task with the starting toggle when   *)
(* k is even and with the opposite toggle when k is odd: one flip per      *)
(* chunk.                                                                  *)
(***************************************************************************)
OppositeToggle(x) == IF x = DATA1 THEN DATA0 ELSE DATA1

ToggleOfChunk(k) == IF k % 2 = 0 THEN start_datax ELSE OppositeToggle(start_datax)

\* Chunks of the call, and chunks the loop is through.
ChunksTotal == (Len(data) + chunk_size - 1) \div chunk_size
ChunksDone == ChunksTotal - Len(chunks)

C8_ToggleAlternates ==
    /\ \A k \in DOMAIN toggles : toggles[k] = ToggleOfChunk(k - 1)
    /\ pc \in {"L236", "L239", "L241", "L242", "L261", "L263", "L274", "L275", "L276"} =>
          /\ Len(toggles) = ChunksDone
          /\ datax = ToggleOfChunk(ChunksDone)
    /\ pc \in {"L167", "L171", "L175", "L179", "L181", "L183", "L194", "L197",
               "L245", "L247", "L277", "L279"} =>
          /\ Len(toggles) = ChunksDone + 1
          /\ toggles[Len(toggles)] = datax
    /\ InTrace("transaction_data_out_ret") => Len(toggles) = ChunksTotal
    /\ InTrace("transaction_data_in_ret") =>
          Len(toggles) = IF ChunksTotal = 0 THEN 1 ELSE ChunksTotal

C8_Witness ==
    /\ op = "transaction_data_out"
    /\ start_datax = DATA1
    /\ toggles = <<DATA1, DATA0, DATA1>>
    /\ InTrace("transaction_data_out_ret")

(***************************************************************************)
(* C9.  transaction_setup writes the handled code 2 to usb_setup_ctrl      *)
(* exactly once when the drained bytes are data followed by crc16(data),   *)
(* and raises a validation failure without writing usb_setup_ctrl when     *)
(* fewer than 2 bytes were drained, when the payload differs from data or  *)
(* when the last two bytes differ from crc16(data).                        *)
(***************************************************************************)
DrainedIsDataAndCrc == actual_data = expected_data \o crc16(expected_data)

C9_SetupAcknowledge ==
    /\ InSetup /\ pc \in {"L220", "L100", "L104", "L108", "L112", "L114", "L116"} =>
          WritesTo("usb_setup_ctrl") = <<>>
    /\ pc = "L128" => DrainedIsDataAndCrc /\ WritesTo("usb_setup_ctrl") = <<>>
    /\ pc = "L222" =>
          /\ DrainedIsDataAndCrc
          /\ WritesTo("usb_setup_ctrl") = << <<"usb_setup_ctrl", 2>> >>
    /\ InSetup /\ pc = "raised" =>
          /\ ~DrainedIsDataAndCrc
          /\ result = "validation"
          /\ WritesTo("usb_setup_ctrl") = <<>>
    /\ InTrace("transaction_setup_ret") =>
          WritesTo("usb_setup_ctrl") = << <<"usb_setup_ctrl", 2>> >>

C9_Witness ==
    /\ InSetup
    /\ result = "validation"
    /\ Len(actual_data) = Len(expected_data) + 2
    /\ SubSeq(actual_data, 1, Len(expected_data)) = expected_data
    /\ SubSeq(actual_data, Len(expected_data) + 1, Len(actual_data)) # crc16(expected_data)
    /\ WritesTo("usb_setup_ctrl") = <<>>

(***************************************************************************)
(* C10.  As claimed: every value read from an event-pending register       *)
(* during a stage is written back to it before the next stage starts, so   *)
(* no bit the engine saw set is still uncleared when the next stage, or    *)
(* the end of the transfer, is reached.                                    *)
(***************************************************************************)
C10_NothingSeenLeftUncleared ==
    IsControl /\ (pc \in {"L316", "L369", "L334", "L394", "done"}
                  \/ (pc = "raised" /\ StatusReturned)) =>
        \A r \in EvRegs : ev_seen[r] = 0

(***************************************************************************)
(* C11.  As claimed: transaction_data_in with empty data forks and joins   *)
(* one receive task, writes no byte to usb_in_data and arms usb_in_ctrl    *)
(* with the endpoint number exactly once; with non-empty data it performs  *)
(* one handshake per chunk (one arming of usb_in_ctrl, one receive task)   *)
(* and no zero-length one.                                                 *)
(***************************************************************************)
C11_OneHandshakePerChunkOrOneEmpty ==
    op = "transaction_data_in" /\ InTrace("transaction_data_in_ret") =>
        IF data = <<>>
        THEN /\ Len(toggles) = 1
             /\ WritesTo("usb_in_data") = <<>>
             /\ WritesTo("usb_in_ctrl") = << <<"usb_in_ctrl", 0>> >>
        ELSE /\ Len(toggles) = ChunksTotal
             /\ Len(WritesTo("usb_in_data")) = Len(data)
             /\ Len(WritesTo("usb_in_ctrl")) = ChunksTotal

(***************************************************************************)
(* C12.  Whatever the status registers return, the check side of           *)
(* transaction_setup reads the status at most 128 times in its priming     *)
(* loop and at most 48 times in its drain loop, the check side of a        *)
(* transaction_data_out chunk at most 128 and 256 times, and then goes to  *)
(* the validation with the bytes it drained.  Under fair scheduling it     *)
(* gets there: while it polls it is never blocked, and each of its steps   *)
(* brings it nearer to the end of its loops by a measure that is never     *)
(* negative.                                                               *)
(***************************************************************************)
Polling ==
    pc \in {"L100", "L104", "L108", "L112", "L114",
            "L167", "L171", "L175", "L179", "L181"}

PollingWithinBudget ==
    /\ pc \in {"L100", "L104", "L167", "L171"} => i < 128 /\ actual_data = <<>>
    /\ pc \in {"L108", "L112"} => i < 48 /\ Len(actual_data) = i
    /\ pc = "L114" => i < 48 /\ Len(actual_data) = i + 1
    /\ pc = "L116" => Len(actual_data) <= 48
    /\ pc \in {"L175", "L179"} => i < 256 /\ Len(actual_data) = i
    /\ pc = "L181" => i < 256 /\ Len(actual_data) = i + 1
    /\ pc = "L183" => Len(actual_data) <= 256

\* Steps the check side has at most left in its two loops.
PollingStepsLeft ==
    CASE pc = "L100" -> 2 * (128 - i) + 3 * 48 + 1
      [] pc = "L104" -> 2 * (128 - i) + 3 * 48
      [] pc = "L108" -> 3 * (48 - i)
      [] pc = "L112" -> 3 * (48 - i) - 1
      [] pc = "L114" -> 3 * (48 - i) - 2
      [] pc = "L167" -> 2 * (128 - i) + 3 * 256 + 1
      [] pc = "L171" -> 2 * (128 - i) + 3 * 256
      [] pc = "L175" -> 3 * (256 - i)
      [] pc = "L179" -> 3 * (256 - i) - 1
      [] pc = "L181" -> 3 * (256 - i) - 2
      [] OTHER -> 0

C12_PollingEnds ==
    /\ [](PollingWithinBudget /\ PollingStepsLeft >= 0)
    /\ [](Polling => ENABLED <<expect_setup \/ expect_data>>_<<pc, i>>)
    /\ [][Polling /\ <<pc, i>>' # <<pc, i>> =>
            ~Polling' \/ PollingStepsLeft' < PollingStepsLeft]_vars

\* Both budgets of expect_setup used up: the ready bit came after the last
\* priming read, and the device went on reporting bytes.
C12_Witness ==
    /\ op = "transaction_setup"
    /\ pc = "L116"
    /\ ~primed
    /\ Len(actual_data) = 48

(***************************************************************************)
(* C13.  A validation failure or a register transport error ends the call  *)
(* with that error: from the failure on the main coroutine runs no line,   *)
(* reads and writes no register, invokes no primitive, forks no task and   *)
(* the error is not replaced by another outcome; the failing step itself   *)
(* writes no register.                                                     *)
(***************************************************************************)
Failed == result \in {"validation", "transport"}

C13_FailureAborts ==
    /\ [](Failed => pc = "raised")
    /\ [][Failed =>
            /\ pc' = "raised"
            /\ result' = result
            /\ UNCHANGED <<wlog, regs_read, trace, toggles, ev_seen,
                           request_deadline, packet_deadline>>]_vars
    /\ [][~Failed /\ Failed' => UNCHANGED <<wlog, trace, toggles>>]_vars

C13_Witness ==
    /\ op = "control_transfer_in"
    /\ result = "transport"
    /\ InTrace("transaction_data_in")
    /\ ~InTrace("transaction_data_in_ret")
    /\ xmit = "done"

(***************************************************************************)
(* C14.  Priming and drain.                                                *)
(***************************************************************************)
PrimePcs == {"L100", "L104", "L167", "L171"}
DrainPcs == {"L108", "L112", "L114", "L175", "L179", "L181"}
DrainedPcs == {"L116", "L183"}
FirstDrainRead == pc \in {"L108", "L175"} /\ i = 0 /\ actual_data = <<>>

\* C14 as stated: in expect_setup and expect_data the two loops are
\* sequential, and when the priming loop used up its budget without seeing
\* the ready bit, the drain loop leaves on its first status read and no
\* byte is drained, whatever the forked stimulus task did meanwhile.
C14_UnprimedDrainIsEmpty ==
    /\ pc \in PrimePcs => actual_data = <<>>
    /\ pc \in DrainPcs /\ ~primed => FirstDrainRead
    /\ pc \in DrainedPcs /\ ~primed => actual_data = <<>>

\* C14 as the code has it: the two loops are sequential (no byte is drained
\* while priming, the drain starts with its budget whole and never goes back
\* to priming), and when the priming loop used up its budget without seeing
\* the ready bit, the drain loop leaves on its first status read with zero
\* bytes exactly when the FIFO is still empty at that read; a byte that the
\* stimulus task delivered after the last priming read is drained.
C14_UnprimedDrainFollowsFifo ==
    /\ [](pc \in PrimePcs => actual_data = <<>> /\ ~primed)
    /\ [][(pc \in PrimePcs) /\ pc' \notin PrimePcs => FirstDrainRead']_vars
    /\ [][(pc \in DrainPcs) => pc' \in DrainPcs \cup DrainedPcs]_vars
    /\ [][(pc \in DrainPcs) /\ ~primed /\ FirstDrainRead /\ pc' # pc =>
            IF fifo = "empty"
            THEN pc' \in DrainedPcs /\ actual_data' = <<>>
            ELSE pc' \in {"L112", "L179"}]_vars

C14_Witness ==
    /\ pc \in DrainedPcs
    /\ ~primed
    /\ actual_data # <<>>

(***************************************************************************)
(* C15.  The event check of an acknowledged OUT chunk.                     *)
(***************************************************************************)
\* Number of bits set in v.
RECURSIVE BitsSet(_)
BitsSet(v) == IF v = 0 THEN 0 ELSE (v % 2) + BitsSet(v \div 2)

\* The step that reads usb_out_ev_pending and the step that writes it back.
EventRead == pc = "L194" /\ pc' # pc
EventWriteBack == pc = "L197" /\ pc' # pc
AcknowledgedChunkValidates == expected = ACK /\ DrainedIsDataAndCrc

\* C15 as stated: for a chunk whose expected response is ACK and whose data
\* and CRC validate, the check passes and writes the value read back to
\* usb_out_ev_pending if and only if exactly one bit is set in the value
\* read; with zero bits or more than one bit set it raises a validation
\* failure and writes nothing.
C15_PassesIffOneBit ==
    /\ [](pc \in {"L194", "L197"} => AcknowledgedChunkValidates)
    /\ [][EventRead =>
            IF BitsSet(ev') = 1
            THEN pc' = "L197" /\ result' = "none"
            ELSE pc' = "raised" /\ result' = "validation" /\ wlog' = wlog]_vars
    /\ [][EventWriteBack =>
            wlog' = Append(wlog, <<"usb_out_ev_pending", ev>>)]_vars

\* C15 as the code has it: the check passes and writes the value read back
\* if and only if the value read is 1 (bit 0 set and no other); with any
\* other value, a single other bit included, it raises a validation failure
\* and writes nothing.
C15_PassesIffOne ==
    /\ [](pc \in {"L194", "L197"} => AcknowledgedChunkValidates)
    /\ [](pc = "L197" => ev = 1)
    /\ [][EventRead =>
            IF ev' = 1
            THEN pc' = "L197" /\ result' = "none" /\ wlog' = wlog
            ELSE pc' = "raised" /\ result' = "validation" /\ wlog' = wlog]_vars
    /\ [][EventWriteBack =>
            /\ wlog' = Append(wlog, <<"usb_out_ev_pending", 1>>)
            /\ ev_seen'["usb_out_ev_pending"] = 0]_vars

C15_Witness ==
    /\ op = "transaction_data_out"
    /\ AcknowledgedChunkValidates
    /\ ev = 2
    /\ "usb_out_ev_pending" \in regs_read
    /\ result = "validation"
    /\ WritesTo("usb_out_ev_pending") = <<>>

(***************************************************************************)
(* C16.  The packet deadline and the forks.                                *)
(***************************************************************************)
\* Lines that fork a stimulus or receive task: transaction_setup,
\* transaction_data_out, transaction_data_in (a chunk, the empty
\* handshake), the two status stages.
SetupForkPc == "L220"
DataOutForkPc == "L242"
DataInForkPc == "L276"
EmptyHandshakeForkPc == "L285"
StatusForkPcs == {"L336", "L398"}
ForkPcs ==
    {SetupForkPc, DataOutForkPc, DataInForkPc, EmptyHandshakeForkPc} \cup StatusForkPcs

\* Stimulus/check pairs of this call that have finished.
PairsFinished ==
    (IF InTrace("transaction_setup_ret") THEN 1 ELSE 0) + Len(toggles)

\* packet_deadline is a time not later than now, plus the budget b.
ArmedWith(b) == \E t \in 0..time : packet_deadline = t + b

\* C16 as stated: at every fork of a stimulus or receive task the packet
\* deadline has been assigned (time + MAX_PACKET_TIME) since the pair before
\* it finished: one assignment for each pair so far and this one.
C16_ArmedBeforeEveryFork ==
    pc \in ForkPcs =>
        /\ pkt_arms = PairsFinished + 1
        /\ ArmedWith(MAX_PACKET_TIME)

\* C16 as the code has it: the packet deadline is assigned
\* (time + MAX_PACKET_TIME) before the fork of every transaction_data_out
\* chunk and of the two status stages, and (time + 500) before the fork of
\* every transaction_data_in chunk; transaction_setup and the empty
\* handshake of transaction_data_in fork without assigning it, and it is
\* only assigned while no forked task runs.
C16_ArmedBeforeDataAndStatusForks ==
    /\ [](pc = SetupForkPc => pkt_arms = 0 /\ packet_deadline = 0)
    /\ [](pc = EmptyHandshakeForkPc => pkt_arms = 0 /\ packet_deadline = 0)
    /\ [](pc = DataOutForkPc =>
            pkt_arms = Len(toggles) + 1 /\ ArmedWith(MAX_PACKET_TIME))
    /\ [](pc = DataInForkPc =>
            pkt_arms = Len(toggles) + 1 /\ ArmedWith(DATA_IN_PACKET_TIME))
    /\ [](pc \in StatusForkPcs =>
            pkt_arms = ChunksTotal + 1 /\ ArmedWith(MAX_PACKET_TIME))
    /\ [][pkt_arms' # pkt_arms =>
            /\ xmit # "running"
            /\ pkt_arms' = pkt_arms + 1
            /\ packet_deadline' \in {time + MAX_PACKET_TIME, time + DATA_IN_PACKET_TIME}]_vars
    /\ [][xmit # "running" /\ xmit' = "running" => pc \in ForkPcs]_vars

C16_Witness ==
    /\ op = "control_transfer_out"
    /\ pc = "L336_join"
    /\ ChunksTotal = 1
    /\ pkt_arms = 2
    /\ packet_deadline = 1 + MAX_PACKET_TIME

(***************************************************************************)
(* C17.  Where the control transfers compare a deadline with the clock.    *)
(***************************************************************************)
\* The data stage of this transfer has returned.
DataReturned ==
    InTrace("transaction_data_out_ret") \/ InTrace("transaction_data_in_ret")

\* First line of the status stage.
StatusStagePc == IF op = "control_transfer_out" THEN "L334" ELSE "L394"

\* The lines that compare get_sim_time with request_deadline.
DeadlineComparePcs == {"L263", "L344", "L405"}

\* C17 as stated: in both control transfers the deadline is compared with
\* the clock once after the data stage has completed and once after the
\* status stage has completed: a transfer that is late when its data stage
\* ends does not start its status stage, a timeout is only raised once the
\* data stage has completed, and never while a forked task runs.
C17_ComparedAfterDataAndAfterStatus ==
    /\ IsControl /\ DataReturned /\ pc = StatusStagePc => time <= request_deadline
    /\ IsControl /\ result = "timeout" =>
          /\ descriptor_data.present => DataReturned
          /\ xmit # "running"

\* C17 as the code has it: control_transfer_out compares the request
\* deadline with the clock once, after the status stage (line 344);
\* control_transfer_in compares it before every chunk of the data stage
\* (line 263) and after the status stage (line 405).  Neither compares it
\* when the data stage has completed, the packet deadline is compared
\* nowhere, and no timeout is raised while a forked task runs.
C17_ComparedAfterStatusAndBeforeChunk ==
    /\ [](IsControl /\ result = "timeout" =>
            time > request_deadline /\ xmit # "running")
    /\ [][IsControl /\ result' # result /\ result' = "timeout" =>
            /\ pc \in DeadlineComparePcs
            /\ op = "control_transfer_out" => pc = "L344"
            /\ pc' = "raised"]_vars
    /\ [][IsControl /\ (pc \in DeadlineComparePcs) /\ pc' # pc =>
            (result' = "timeout") = (time > request_deadline)]_vars
    /\ [][IsControl /\ (pc \notin DeadlineComparePcs) /\ pc' # pc /\ time > packet_deadline =>
            result' # "timeout"]_vars

C17_Witness ==
    /\ op = "control_transfer_out"
    /\ DataReturned
    /\ pc = "L336_join"
    /\ time > request_deadline
    /\ WritesTo("usb_in_ctrl") = << <<"usb_in_ctrl", 0>> >>
    /\ pkt_arms = 2
    /\ packet_deadline = 2 + MAX_PACKET_TIME

(***************************************************************************)
(* C18.  The status stage of control_transfer_out performs its steps in    *)
(* this order: assign the packet deadline, write 0 to usb_in_ctrl, run and *)
(* join the IN status handshake, wait two clock edges, read                *)
(* usb_in_ev_pending and write the value back, write 32 (bit 5) to         *)
(* usb_in_ctrl.  The reset is never written before the clear, and the      *)
(* clear never before the handshake has joined.                            *)
(***************************************************************************)
StatusStageOrder ==
    <<"L334", "L335", "L336", "L336_join", "L337", "L338", "L339", "L340",
      "L341", "L344">>

InCtrlWrites == WritesTo("usb_in_ctrl")
InEvWrites == WritesTo("usb_in_ev_pending")

\* What the step that leaves the k-th line of the status stage does.
StatusStep(k) ==
    CASE k = 1 -> /\ packet_deadline' = time + MAX_PACKET_TIME
                  /\ pkt_arms' = pkt_arms + 1
                  /\ UNCHANGED <<wlog, regs_read, trace, xmit>>
      [] k = 2 -> /\ wlog' = Append(wlog, <<"usb_in_ctrl", 0>>)
                  /\ UNCHANGED <<pkt_arms, regs_read, trace, xmit>>
      [] k = 3 -> /\ trace' = Append(trace, "transaction_status_in")
                  /\ xmit' = "running"
                  /\ UNCHANGED <<pkt_arms, wlog, regs_read>>
      [] k = 4 -> /\ xmit = "done"
                  /\ trace' = Append(trace, "transaction_status_in_ret")
                  /\ UNCHANGED <<pkt_arms, wlog, regs_read, xmit>>
      [] k \in {5, 6} -> UNCHANGED <<pkt_arms, wlog, regs_read, trace, xmit>>
      [] k = 7 -> /\ regs_read' = regs_read \cup {"usb_in_ev_pending"}
                  /\ UNCHANGED <<pkt_arms, wlog, trace, xmit>>
      [] k = 8 -> /\ wlog' = Append(wlog, <<"usb_in_ev_pending", ev>>)
                  /\ UNCHANGED <<pkt_arms, regs_read, trace, xmit, ev>>
      [] k = 9 -> /\ wlog' = Append(wlog, <<"usb_in_ctrl", 32>>)
                  /\ UNCHANGED <<pkt_arms, regs_read, trace, xmit>>

C18_StatusStageOrder ==
    /\ [](op = "control_transfer_out" =>
            /\ IsPrefix(InCtrlWrites, << <<"usb_in_ctrl", 0>>, <<"usb_in_ctrl", 32>> >>)
            /\ Len(InEvWrites) <= 1
            /\ InCtrlWrites # <<>> => pkt_arms = ChunksTotal + 1
            /\ InTrace("transaction_status_in") => InCtrlWrites # <<>>
            /\ InEvWrites # <<>> =>
                  /\ InTrace("transaction_status_in_ret")
                  /\ "usb_in_ev_pending" \in regs_read
                  /\ InEvWrites[1][2] = ev
            /\ Len(InCtrlWrites) = 2 => InEvWrites # <<>>
            /\ result = "ok" => Len(InCtrlWrites) = 2)
    /\ [][op = "control_transfer_out" =>
            \A k \in 1..9 :
                pc = StatusStageOrder[k] /\ pc' # pc =>
                    pc' = StatusStageOrder[k + 1] /\ StatusStep(k)]_vars

C18_Witness ==
    /\ op = "control_transfer_out"
    /\ result = "ok"
    /\ ev = 1
    /\ SubSeq(wlog, Len(wlog) - 2, Len(wlog)) =
          << <<"usb_in_ctrl", 0>>, <<"usb_in_ev_pending", 1>>, <<"usb_in_ctrl", 32>> >>

(***************************************************************************)
(* C19.  pending(ep) of an OUT endpoint returns a true value only when     *)
(* bit 4 or bit 5 of usb_out_status is set and its low four bits are the   *)
(* endpoint number of ep; pending(ep) of an IN endpoint returns a true     *)
(* value exactly when bit 4 of usb_in_status is set.                       *)
(***************************************************************************)
PendingReturned == op = "pending" /\ pc = "idle"

C19_PendingNeedsReadyBit ==
    PendingReturned =>
        IF Bit(ep, 7) = 1
        THEN (ret # 0) <=> (Bit(val, 4) = 1)
        ELSE ret # 0 =>
                /\ Bit(val, 4) = 1 \/ Bit(val, 5) = 1
                /\ val % 16 = ep % 16

====
